---- MODULE Spec2Model ----
(***************************************************************************)
(* A model of the provisioning orchestrator (src/src/flash.c) and of the   *)
(* telemetry and command gateway (src/src/server.c).                       *)
(*                                                                         *)
(* Texts are strings; Ch(s, i) is the i-th byte (1-based) of a text.       *)
(* The specifications share the variables:                                 *)
(*   SpecExtract  applies extract_mac_from_string to bounded inputs,       *)
(*   SpecFlash    runs flash_thread_fn step by step, next to the thread    *)
(*                that triggered it,                                       *)
(*   SpecFlashFair  is SpecFlash with the workflow thread scheduled in the *)
(*                serial wait,                                             *)
(*   Spec         runs the gateway's receive loop on arbitrary packets,    *)
(*   SpecRing     runs the same receive loop on long per-device streams,   *)
(*   SpecFill     runs it on packets from more identifiers than the        *)
(*                registry holds,                                          *)
(*   SpecThreads  interleaves the receive thread, statement by statement,  *)
(*                with a thread that calls the operations of server.h,     *)
(*   SpecStop     runs server_start and server_stop next to the receive    *)
(*                thread, with both threads scheduled fairly,              *)
(*   SpecTwo      runs two workflow threads of one process side by side,   *)
(*                as far as the files under /tmp go.                       *)
(***************************************************************************)
EXTENDS Integers, Sequences, FiniteSets, TLC

VARIABLES
    \* ---- extract_mac_from_string harness
    xin,        \* the input text
    xout,       \* the result, or the pending marker
    \* ---- flash_thread_fn
    pc,         \* position of the workflow thread
    created_tmp,\* flash.c:115 created_tmp
    tmpfiles,   \* files and directory the run has created under /tmp and not removed
    compile_ok, \* flash.c:145 compile_ok
    trace,      \* every call the workflow made to the outside, in order
    script,     \* what the serial line delivers, one read outcome per poll
    ticks,      \* flash.c:76 ticks
    pos,        \* flash.c:76 pos
    linebuf,    \* flash.c:76 buf[0..pos-1]
    fd_open,    \* number of serial handles open
    fd_closes,  \* number of close() calls on the serial handle
    trigger,    \* the thread inside flash_flash_first_device_and_register
    \* ---- two workflow threads of one process (SpecTwo)
    attempts,   \* per thread: its position, use_path and created_tmp
    fs,         \* the paths that exist under /tmp
    \* ---- gateway
    maps,       \* server.c:41 maps[0..maps_count-1]
    lastpkt,    \* the packet handled last and what its handling did
    hist,       \* per registry slot: every line add_log_to_entry stored, in order
    sent,       \* per streaming device: packets sent so far (SpecRing)
    npackets,   \* packets handled so far
    rxthread,   \* position of the receive thread (server_thread_fn)
    server_running, \* server.c:21
    ret,        \* result of the query made last
    mutex,      \* server.c:24 maps_mutex: the thread that holds it, or none
    call,       \* the calling thread: the operation it is in and its locals
    inflight,   \* self-wake datagrams queued at the gateway's socket
    outbox      \* datagrams the command operations handed to the network

xvars == <<xin, xout>>
avars == <<attempts, fs>>
fvars == <<pc, created_tmp, tmpfiles, compile_ok, trace, script, ticks, pos,
           linebuf, fd_open, fd_closes, trigger, avars>>
tvars == <<mutex, call, inflight, outbox>>
gvars == <<maps, lastpkt, hist, sent, npackets, rxthread, server_running, ret, tvars>>
vars == <<xvars, fvars, gvars>>

(***************************************************************************)
(* Texts and character classes                                             *)
(***************************************************************************)
Ch(s, i) == SubSeq(s, i, i)

Take(s, n) == IF Len(s) <= n THEN s ELSE SubSeq(s, 1, n)

Drop(s, n) == IF Len(s) <= n THEN "" ELSE SubSeq(s, n + 1, Len(s))

Digits == {"0", "1", "2", "3", "4", "5", "6", "7", "8", "9"}

LowerHex == {"a", "b", "c", "d", "e", "f"}

UpperHex == {"A", "B", "C", "D", "E", "F"}

\* flash.c:57 the hex-digit test of extract_mac_from_string
IsHexChar(c) == c \in Digits \/ c \in LowerHex \/ c \in UpperHex

MAC_LEN == 17

(***************************************************************************)
(* extract_mac_from_string (flash.c:48-67)                                 *)
(***************************************************************************)
\* flash.c:53-58: the 17-byte test at p; the loop breaks at the first bad byte
WindowOk(s, p) ==
    \A i \in 0..(MAC_LEN - 1) :
        IF i % 3 = 2 THEN Ch(s, p + i) = ":" ELSE IsHexChar(Ch(s, p + i))

RECURSIVE ExtractFromStrict(_, _, _)
\* a slip in the length test: strlen(p) > 17 misses a window that ends the text
ExtractFromStrict(s, p, out_len) ==
    IF p > Len(s) THEN [rc |-> -1, out |-> ""]
    ELSE IF Len(s) - p + 1 > MAC_LEN /\ WindowOk(s, p)
         THEN IF out_len > MAC_LEN
              THEN [rc |-> 0, out |-> SubSeq(s, p, p + MAC_LEN - 1)]
              ELSE [rc |-> -1, out |-> ""]
         ELSE ExtractFromStrict(s, p + 1, out_len)

RECURSIVE ExtractFrom(_, _, _)
\* flash.c:51-66: the scan from byte p (1-based) on
ExtractFrom(s, p, out_len) ==
    IF p > Len(s) THEN [rc |-> -1, out |-> ""]
    ELSE IF Len(s) - p + 1 >= MAC_LEN /\ WindowOk(s, p)
         THEN IF out_len > MAC_LEN
              THEN [rc |-> 0, out |-> SubSeq(s, p, p + MAC_LEN - 1)]
              ELSE [rc |-> -1, out |-> ""]
         ELSE ExtractFrom(s, p + 1, out_len)

extract_mac_from_string(s, out_len) == ExtractFrom(s, 1, out_len)

\* flash.c:174 char mac[32]
MAC_BUF_LEN == 32

(***************************************************************************)
(* Inputs of the extraction harness                                        *)
(***************************************************************************)
MaxPad == 2

PadAlphabet == {"a", ":", "g"}

XAlphabet == {"a", "F", "0", "9", ":", "g", " "}

RECURSIVE PadsOfLen(_)
PadsOfLen(n) ==
    IF n = 0 THEN {""}
    ELSE {p \o c : p \in PadsOfLen(n - 1), c \in PadAlphabet}

Pads == UNION {PadsOfLen(n) : n \in 0..MaxPad}

Mac0 == "aa:bb:cc:dd:ee:ff"

ReplaceAt(s, i, c) == SubSeq(s, 1, i - 1) \o c \o SubSeq(s, i + 1, Len(s))

\* the well-formed window and every text one byte away from it
Cores == {ReplaceAt(Mac0, i, c) : i \in 1..MAC_LEN, c \in XAlphabet}

Suffixes == {"", "0", ":0B", " ready"}

XInputs == {p \o c \o s : p \in Pads, c \in Cores \cup {"", "aa:bb:cc"}, s \in Suffixes}

Pending == [rc |-> 1, out |-> ""]

(***************************************************************************)
(* sscanf, as far as the gateway's formats use it.  A format is a sequence *)
(* of directives; Sscanf returns the number of assigned conversions and    *)
(* their values.  An input failure before the first conversion (C's EOF)   *)
(* is returned as 0: the callers only test for 1 and 2.                    *)
(* %f reads an optional sign and a decimal mantissa; exponents, "inf",     *)
(* "nan" and hexadecimal floats are not in the texts the model sends.      *)
(***************************************************************************)
\* whether byte c ends a run: the bytes of set end it when inset holds, the
\* bytes outside set when it does not
Stops(c, set, inset) == (c \in set) = inset

\* the end (exclusive) of the run of bytes from j on that do not end it, cut at
\* limit and at the end of the text
RunEnd(s, j, limit, set, inset) ==
    LET cap == IF limit < Len(s) + 1 THEN limit ELSE Len(s) + 1
        hi == IF cap < j THEN j ELSE cap
    IN  CHOOSE e \in j..hi :
            /\ e = hi \/ Stops(Ch(s, e), set, inset)
            /\ \A q \in j..(e - 1) : ~Stops(Ch(s, q), set, inset)

Spaces == {" ", "\t", "\n", "\r"}

SkipWs(s, i) == RunEnd(s, i, Len(s) + 1, Spaces, FALSE)

\* end (exclusive) of a run of non-space bytes from j, at most up to limit
TokenEnd(s, j, limit) == RunEnd(s, j, limit, Spaces, TRUE)

\* end (exclusive) of a run of bytes other than stop from j, at most up to limit
SetEnd(s, j, stop, limit) == RunEnd(s, j, limit, {stop}, TRUE)

DigitsEnd(s, j) == RunEnd(s, j, Len(s) + 1, Digits, FALSE)

DigitVal(c) ==
    CASE c = "0" -> 0 [] c = "1" -> 1 [] c = "2" -> 2 [] c = "3" -> 3 [] c = "4" -> 4
      [] c = "5" -> 5 [] c = "6" -> 6 [] c = "7" -> 7 [] c = "8" -> 8 [] c = "9" -> 9

RECURSIVE NatOf(_)
NatOf(d) == IF d = "" THEN 0 ELSE 10 * NatOf(SubSeq(d, 1, Len(d) - 1)) + DigitVal(Ch(d, Len(d)))

RECURSIVE StripLeadingZeros(_)
StripLeadingZeros(d) == IF d # "" /\ Ch(d, 1) = "0" THEN StripLeadingZeros(Tail(d)) ELSE d

RECURSIVE StripTrailingZeros(_)
StripTrailingZeros(d) ==
    IF d # "" /\ Ch(d, Len(d)) = "0" THEN StripTrailingZeros(SubSeq(d, 1, Len(d) - 1)) ELSE d

\* the value of sign, integer digits, fraction digits: a decimal kept exactly
\* (minus zero compares and is kept as zero)
FloatRec(neg, i, f) == [neg |-> neg /\ (i # "" \/ f # ""), ip |-> i, fp |-> f]

FloatOf(neg, ip, fp) == FloatRec(neg, StripLeadingZeros(ip), StripTrailingZeros(fp))

\* v >= 0.0f
FloatGeZero(v) == ~v.neg

\* v <= 5.0f
FloatLeFive(v) ==
    \/ v.neg
    \/ v.ip = ""
    \/ Len(v.ip) = 1 /\ DigitVal(v.ip) < 5
    \/ v.ip = "5" /\ v.fp = ""

Ws == [t |-> "ws", a |-> "", w |-> 0]
Lit(c) == [t |-> "lit", a |-> c, w |-> 0]
Lits(str) == [i \in 1..Len(str) |-> Lit(Ch(str, i))]
ConvS(w) == [t |-> "s", a |-> "", w |-> w]
ConvNotSet(stop, w) == [t |-> "notset", a |-> stop, w |-> w]
SkipNotSet(stop) == [t |-> "skipnotset", a |-> stop, w |-> 0]
ConvD == [t |-> "d", a |-> "", w |-> 0]
ConvF == [t |-> "f", a |-> "", w |-> 0]

\* a sign at byte j, and the first byte after it
SignAt(s, j) == j <= Len(s) /\ Ch(s, j) \in {"-", "+"}

MinusAt(s, j) == j <= Len(s) /\ Ch(s, j) = "-"

AfterSign(s, j) == IF SignAt(s, j) THEN j + 1 ELSE j

\* the digits k..e-1 as an integer; no digit is a matching failure
IntVal(s, i, neg, k, e) ==
    IF e = k THEN [ok |-> FALSE, val |-> 0, next |-> i]
    ELSE [ok |-> TRUE,
          val |-> IF neg THEN 0 - NatOf(SubSeq(s, k, e - 1)) ELSE NatOf(SubSeq(s, k, e - 1)),
          next |-> e]

IntDigits(s, i, neg, k) == IntVal(s, i, neg, k, DigitsEnd(s, k))

IntAt(s, i, j) == IntDigits(s, i, MinusAt(s, j), AfterSign(s, j))

\* %d at i: skips white space, optional sign, at least one digit
ScanInt(s, i) == IntAt(s, i, SkipWs(s, i))

\* integer digits ip, fraction digits fp, the number ends before byte e2;
\* no digit at all is a matching failure
FloatVal(i, neg, ip, fp, e2) ==
    IF ip = "" /\ fp = "" THEN [ok |-> FALSE, val |-> FloatOf(FALSE, "", ""), next |-> i]
    ELSE [ok |-> TRUE, val |-> FloatOf(neg, ip, fp), next |-> e2]

\* integer digits k..e1-1, then the point and the fraction digits up to e2-1
FloatParts(s, i, neg, k, e1, e2) ==
    FloatVal(i, neg, SubSeq(s, k, e1 - 1),
             IF e2 > e1 + 1 THEN SubSeq(s, e1 + 1, e2 - 1) ELSE "", e2)

DotAt(s, e) == e <= Len(s) /\ Ch(s, e) = "."

FloatFrac(s, i, neg, k, e1) ==
    FloatParts(s, i, neg, k, e1, IF DotAt(s, e1) THEN DigitsEnd(s, e1 + 1) ELSE e1)

FloatDigits(s, i, neg, k) == FloatFrac(s, i, neg, k, DigitsEnd(s, k))

FloatAt(s, i, j) == FloatDigits(s, i, MinusAt(s, j), AfterSign(s, j))

\* %f at i: skips white space, optional sign, digits with an optional point;
\* at least one digit; stops at the first byte that cannot continue the number
ScanFloat(s, i) == FloatAt(s, i, SkipWs(s, i))

\* a conversion that assigns the bytes j..e-1; it fails on an empty run
AssignRun(s, j, e, vals) ==
    [ok |-> e # j, next |-> e, vals |-> Append(vals, SubSeq(s, j, e - 1))]

\* a suppressed conversion over the bytes j..e-1
SkipRun(j, e, vals) == [ok |-> e # j, next |-> e, vals |-> vals]

\* a numeric conversion whose scan gave r
AssignVal(r, vals) == [ok |-> r.ok, next |-> r.next, vals |-> Append(vals, r.val)]

\* %<w>s from the first non-space byte j
TokenRun(s, j, w, vals) == AssignRun(s, j, TokenEnd(s, j, j + w), vals)

\* one directive d at byte i of s: whether it matched, the byte after it,
\* and the values assigned so far
ScanStep(s, i, d, vals) ==
    CASE d.t = "ws" -> [ok |-> TRUE, next |-> SkipWs(s, i), vals |-> vals]
      [] d.t = "lit" -> [ok |-> i <= Len(s) /\ Ch(s, i) = d.a, next |-> i + 1, vals |-> vals]
      [] d.t = "s" -> TokenRun(s, SkipWs(s, i), d.w, vals)
      [] d.t = "notset" -> AssignRun(s, i, SetEnd(s, i, d.a, i + d.w), vals)
      [] d.t = "skipnotset" -> SkipRun(i, SetEnd(s, i, d.a, Len(s) + 1), vals)
      [] d.t = "d" -> AssignVal(ScanInt(s, i), vals)
      [] d.t = "f" -> AssignVal(ScanFloat(s, i), vals)

RECURSIVE ScanFrom(_, _, _, _, _)
\* after directive k gave r: the scan stops at the first directive that fails
ScanNext(s, fmt, k, vals, r) ==
    IF r.ok THEN ScanFrom(s, r.next, fmt, k + 1, r.vals)
    ELSE [n |-> Len(vals), vals |-> vals]

\* directive k of fmt at byte i of s, vals assigned so far
ScanFrom(s, i, fmt, k, vals) ==
    IF k > Len(fmt) THEN [n |-> Len(vals), vals |-> vals]
    ELSE ScanNext(s, fmt, k, vals, ScanStep(s, i, fmt[k], vals))

Sscanf(s, fmt) == ScanFrom(s, 1, fmt, 1, <<>>)

\* server.c:135 "%63s"
FmtFirstTok == <<ConvS(63)>>
\* server.c:204 "%31s %f"
FmtSpace == <<ConvS(31), Ws, ConvF>>
\* server.c:238 "%31[^,],%f"
FmtCsv == <<ConvNotSet(",", 31), Lit(","), ConvF>>
\* server.c:148 "%*[^C]CONTROL_PIN (D%d) state: %31s"
FmtControlPin ==
    <<SkipNotSet("C")>> \o Lits("CONTROL_PIN") \o <<Ws>> \o Lits("(D") \o <<ConvD>>
        \o Lits(")") \o <<Ws>> \o Lits("state:") \o <<Ws, ConvS(31)>>
\* server.c:156 "CMD: set D%d = %d"
FmtCmdSet ==
    Lits("CMD:") \o <<Ws>> \o Lits("set") \o <<Ws>> \o Lits("D") \o <<ConvD, Ws>>
        \o Lits("=") \o <<Ws, ConvD>>
\* server.c:156 "CMD D%d %d"
FmtCmdShort == Lits("CMD") \o <<Ws>> \o Lits("D") \o <<ConvD, Ws, ConvD>>

UpperAlpha == "ABCDEFGHIJKLMNOPQRSTUVWXYZ"
LowerAlpha == "abcdefghijklmnopqrstuvwxyz"
UpperSet == {Ch(UpperAlpha, i) : i \in 1..26}
ToLower == [c \in UpperSet |-> Ch(LowerAlpha, CHOOSE i \in 1..26 : Ch(UpperAlpha, i) = c)]

LowerCh(c) == IF c \in UpperSet THEN ToLower[c] ELSE c

\* strcasecmp(a, b) == 0
StrCaseEq(a, b) ==
    /\ Len(a) = Len(b)
    /\ \A i \in 1..Len(a) : LowerCh(Ch(a, i)) = LowerCh(Ch(b, i))

\* strcmp(a, b) == 0
StrEq(a, b) == a = b

(***************************************************************************)
(* The session registry (server.c:26-42)                                   *)
(***************************************************************************)
SERVER_MAP_MAX == 32
SERVER_LOG_LINES == 64
SERVER_LOG_LINE_LEN == 128
SERVER_LIVE_BUFSZ == 8192
\* server.c:32 char mac[32]
MAC_FIELD_LEN == 32
\* server.c:82 char buf[256]
RECV_BUF_LEN == 256

\* the terminating zero byte of a C string, in the image of a byte buffer
NUL == "\\"

\* a slot of maps[] no code has written yet: static storage, all zero
ZeroEntry ==
    [mac |-> "",
     addr |-> [ip |-> 0, port |-> 0],
     logs |-> [i \in 0..(SERVER_LOG_LINES - 1) |-> ""],
     log_head |-> 0,
     log_count |-> 0,
     live_text |-> "",
     live_len |-> 0,
     last_output_state |-> 0]

maps_count == Len(maps)

RECURSIVE NulPad(_)
NulPad(n) ==
    IF n <= 0 THEN ""
    ELSE IF n = 1 THEN NUL ELSE NulPad(n \div 2) \o NulPad(n - n \div 2)

\* the first n bytes of a buffer image as a text; bytes never written are zero
ImageBytes(image, n) == Take(image, n) \o NulPad(n - Len(image))

\* a slip: the length is kept when the new line is shorter than the old one
append_live_text_keep_len(e, line) ==
    LET l == IF Len(line) >= SERVER_LIVE_BUFSZ THEN SERVER_LIVE_BUFSZ - 1 ELSE Len(line)
    IN  [e EXCEPT !.live_text = Take(line, l) \o NUL \o Drop(e.live_text, l + 1),
                  !.live_len = IF l > e.live_len THEN l ELSE e.live_len]

\* server.c:50-60 (e and line are never null where the model calls it)
append_live_text(e, line) ==
    LET l == IF Len(line) >= SERVER_LIVE_BUFSZ THEN SERVER_LIVE_BUFSZ - 1 ELSE Len(line)
    IN  [e EXCEPT !.live_text = Take(line, l) \o NUL \o Drop(e.live_text, l + 1),
                  !.live_len = l]

\* a slip: the write index is not wrapped
StoreLogNoWrap(e, line) ==
    [e EXCEPT !.logs = [i \in DOMAIN e.logs \cup {e.log_head} |->
                            IF i = e.log_head THEN Take(line, SERVER_LOG_LINE_LEN - 1)
                            ELSE e.logs[i]],
              !.log_head = e.log_head + 1,
              !.log_count = IF e.log_count < SERVER_LOG_LINES THEN e.log_count + 1
                            ELSE e.log_count]

\* server.c:68-71: strncpy pads the slot with zero bytes, so the slot holds
\* exactly the first 127 bytes of the line
StoreLog(e, line) ==
    [e EXCEPT !.logs[e.log_head] = Take(line, SERVER_LOG_LINE_LEN - 1),
              !.log_head = (e.log_head + 1) % SERVER_LOG_LINES,
              !.log_count = IF e.log_count < SERVER_LOG_LINES THEN e.log_count + 1
                            ELSE e.log_count]

\* server.c:64: whether add_log_to_entry(idx, ..) gets past its index check
\* when maps_count is count
LogIdxOk(count, idx) == ~(idx < 0 \/ idx >= count)

\* server.c:63-74; slots[idx + 1] is maps[idx], count is maps_count
add_log_to_entry(slots, count, idx, line) ==
    IF ~LogIdxOk(count, idx) THEN slots
    ELSE [slots EXCEPT ![idx + 1] = append_live_text(StoreLog(@, line), line)]

Least(S) == CHOOSE p \in S : \A q \in S : p <= q

\* the loops "for (i = 0; i < maps_count; ++i) if (..) { idx = i; break; }"
\* over the 1-based positions S that match; the result is the 0-based index,
\* -1 when no entry matches
FirstIdx(S) == IF S = {} THEN -1 ELSE Least(S) - 1

FindCase(slots, key) == FirstIdx({i \in 1..Len(slots) : StrCaseEq(slots[i].mac, key)})

FindExact(slots, key) == FirstIdx({i \in 1..Len(slots) : StrEq(slots[i].mac, key)})

\* a slip: the port is compared as well
FindByAddrPort(slots, src) == FirstIdx({i \in 1..Len(slots) : slots[i].addr = src})

FindByAddr(slots, src) == FirstIdx({i \in 1..Len(slots) : slots[i].addr.ip = src.ip})

\* server.c:149-152 and 180-183: the state a CONTROL_PIN report of r sets
PinFrom(r, old) ==
    IF r.n = 2
    THEN [matched |-> TRUE,
          state |-> IF r.vals[1] >= 0
                    THEN IF StrCaseEq(r.vals[2], "HIGH") THEN 1
                         ELSE IF StrCaseEq(r.vals[2], "LOW") THEN 0 ELSE old
                    ELSE old]
    ELSE [matched |-> FALSE, state |-> old]

\* server.c:148 and 179: the CONTROL_PIN report; the state it sets (old when
\* the line sets none) and whether sscanf returned 2
ControlPinState(buf, old) == PinFrom(Sscanf(buf, FmtControlPin), old)

\* server.c:157
AckPair(r, old) ==
    IF r.n = 2 /\ r.vals[1] >= 0 /\ r.vals[2] >= 0
    THEN (IF r.vals[2] # 0 THEN 1 ELSE 0)
    ELSE old

\* server.c:156: the second format is tried when the first did not give 2
AckFrom(r1, r2, old) == AckPair(IF r1.n = 2 THEN r1 ELSE r2, old)

\* server.c:155-158: the two acknowledgement formats
AckState(buf, old) == AckFrom(Sscanf(buf, FmtCmdSet), Sscanf(buf, FmtCmdShort), old)

OutputFrom(c, buf, old) == IF c.matched THEN c.state ELSE AckState(buf, old)

\* server.c:145-160
OutputStateFound(buf, old) == OutputFrom(ControlPinState(buf, old), buf, old)

\* server.c:164-167: the entry the diagnostic pass creates for firsttok
NewDiagEntry(firsttok, src) ==
    [ZeroEntry EXCEPT !.mac = Take(firsttok, MAC_FIELD_LEN - 1),
                      !.addr = src,
                      !.log_head = 0, !.log_count = 0,
                      !.live_len = 0, !.live_text = ""]

Untouched(slots) == [slots |-> slots, logged |-> 0]

\* server.c:142-160: the first token names the entry found_idx
DiagFound(slots, buf, found_idx) ==
    [slots |-> [add_log_to_entry(slots, Len(slots), found_idx, buf)
                    EXCEPT ![found_idx + 1].last_output_state = OutputStateFound(buf, @)],
     logged |-> found_idx + 1]

\* server.c:163-170: a new entry; maps_count is incremented only after the
\* call of add_log_to_entry
DiagCreate(slots, buf, src, firsttok, count) ==
    [slots |-> [add_log_to_entry(Append(slots, NewDiagEntry(firsttok, src)), count, count, buf)
                    EXCEPT ![count + 1].last_output_state = -1],
     logged |-> IF LogIdxOk(count, count) THEN count + 1 ELSE 0]

\* server.c:175-185: the table is full; the entry of the source address
DiagFull(slots, buf, byaddr) ==
    IF byaddr >= 0
    THEN [slots |-> [add_log_to_entry(slots, Len(slots), byaddr, buf)
                         EXCEPT ![byaddr + 1].last_output_state = ControlPinState(buf, @).state],
          logged |-> byaddr + 1]
    ELSE Untouched(slots)

\* server.c:192-194: no colon in the first token; the entry of the source address
DiagNoColon(slots, buf, byaddr) ==
    IF byaddr >= 0
    THEN [slots |-> add_log_to_entry(slots, Len(slots), byaddr, buf), logged |-> byaddr + 1]
    ELSE Untouched(slots)

\* server.c:140-187
DiagKeyed(slots, buf, src, firsttok, found_idx) ==
    IF found_idx >= 0 THEN DiagFound(slots, buf, found_idx)
    ELSE IF Len(slots) < SERVER_MAP_MAX THEN DiagCreate(slots, buf, src, firsttok, Len(slots))
         ELSE DiagFull(slots, buf, FindByAddr(slots, src))

\* strchr(firsttok, ':') (server.c:137)
HasColon(firsttok) == \E i \in 1..Len(firsttok) : Ch(firsttok, i) = ":"

DiagFirst(slots, buf, src, firsttok) ==
    IF HasColon(firsttok) THEN DiagKeyed(slots, buf, src, firsttok, FindCase(slots, firsttok))
    ELSE DiagNoColon(slots, buf, FindByAddr(slots, src))

DiagTok(slots, buf, src, tok) ==
    IF tok.n # 1 THEN Untouched(slots) ELSE DiagFirst(slots, buf, src, tok.vals[1])

\* server.c:134-197: the diagnostic pass over one datagram.  logged is the
\* 1-based slot add_log_to_entry stored the line in, 0 when it stored none.
DiagPass(slots, buf, src) == DiagTok(slots, buf, src, Sscanf(buf, FmtFirstTok))

\* v >= 0.0f && v <= 5.0f (server.c:206, 239)
InSensorRange(v) == FloatGeZero(v) /\ FloatLeFive(v)

\* the reading handed to moisture_receive_sensor_values (server.c:208-212)
Reading(mac, v) == [mac |-> Take(mac, MAC_FIELD_LEN - 1), moisture |-> v]

\* server.c:220-231: the entry of the space-separated shape
NewSpaceEntry(mac, src) ==
    [ZeroEntry EXCEPT !.mac = Take(mac, MAC_FIELD_LEN - 1),
                      !.addr = src,
                      !.log_head = 0, !.log_count = 0,
                      !.live_len = 0, !.live_text = "",
                      !.last_output_state = -1]

\* server.c:252-259: the entry of the comma-separated shape; the live text
\* and the output state of the new slot are left as they are
NewCsvEntry(mac, src) ==
    [ZeroEntry EXCEPT !.mac = Take(mac, MAC_FIELD_LEN - 1),
                      !.addr = src,
                      !.log_head = 0, !.log_count = 0]

\* a slip: the address of an entry that exists is left as it was
StoreAtKeepAddr(slots, src, i, new) ==
    IF i >= 0 THEN slots
    ELSE IF Len(slots) < SERVER_MAP_MAX THEN Append(slots, new) ELSE slots

\* a slip: the telemetry pass adds an entry without looking at the capacity
StoreAtNoCap(slots, src, i, new) ==
    IF i >= 0 THEN [slots EXCEPT ![i + 1].addr = src] ELSE Append(slots, new)

\* server.c:216-231 and 248-259: i is the entry strcmp found, -1 for none
StoreAt(slots, src, i, new) ==
    IF i >= 0 THEN [slots EXCEPT ![i + 1].addr = src]
    ELSE IF Len(slots) < SERVER_MAP_MAX THEN Append(slots, new) ELSE slots

StoreSpace(slots, mac, src) ==
    StoreAt(slots, src, FindExact(slots, mac), NewSpaceEntry(mac, src))

StoreCsv(slots, mac, src) ==
    StoreAt(slots, src, FindExact(slots, mac), NewCsvEntry(mac, src))

Dropped(slots) == [slots |-> slots, fwd |-> <<>>]

\* server.c:204-264 after the two sscanf calls gave r1 and r2
TelemetryFrom(slots, src, r1, r2) ==
    IF r1.n = 2
    THEN IF InSensorRange(r1.vals[2])
         THEN [slots |-> StoreSpace(slots, r1.vals[1], src),
               fwd |-> <<Reading(r1.vals[1], r1.vals[2])>>]
         ELSE Dropped(slots)
    ELSE IF r2.n = 2 /\ InSensorRange(r2.vals[2])
         THEN [slots |-> StoreCsv(slots, r2.vals[1], src),
               fwd |-> <<Reading(r2.vals[1], r2.vals[2])>>]
         ELSE Dropped(slots)

\* server.c:200-264: the telemetry pass over one datagram; fwd lists the
\* readings it hands to the external consumer
TelemetryPass(slots, buf, src) ==
    TelemetryFrom(slots, src, Sscanf(buf, FmtSpace), Sscanf(buf, FmtCsv))

\* server.c:326-327: the line the i-th round of the copy loop looks at
LogLine(e, start, i) == e.logs[(start + i) % SERVER_LOG_LINES]

\* server.c:328-333: what one round appends for the line ln
LineOut(ln) == IF ln = "" THEN "" ELSE ln \o "\n"

RECURSIVE LogsJoin(_, _, _, _)
\* what rounds lo..hi-1 of the copy loop append when none of them breaks
LogsJoin(e, start, lo, hi) ==
    IF lo >= hi THEN ""
    ELSE IF lo + 1 = hi THEN LineOut(LogLine(e, start, lo))
         ELSE LogsJoin(e, start, lo, (lo + hi) \div 2) \o LogsJoin(e, start, (lo + hi) \div 2, hi)

\* server.c:330: whether round i breaks the loop, given that no round before did
LogsBreakAt(e, start, i, outbuflen) ==
    /\ LogLine(e, start, i) # ""
    /\ Len(LogsJoin(e, start, 0, i)) + Len(LogLine(e, start, i)) + 2 >= outbuflen

\* the number of rounds that copy: all of them, or those before the first break
RoundsRun(count, breaks) == IF breaks = {} THEN count ELSE Least(breaks)

\* server.c:335-337: used bytes were written, the last newline becomes the end
LogsResult(used) ==
    [rc |-> Len(used), out |-> IF used = "" THEN "" ELSE SubSeq(used, 1, Len(used) - 1)]

\* a slip: the oldest line is taken to be at the write index, which holds
\* only once the ring is full
LogStartAtHead(e) == e.log_head

\* server.c:323
LogStart(e) == (e.log_head - e.log_count + SERVER_LOG_LINES) % SERVER_LOG_LINES

\* server.c:324-334
LogsCopy(e, start, outbuflen) ==
    LogsResult(LogsJoin(e, start, 0,
        RoundsRun(e.log_count,
                  {i \in 0..(e.log_count - 1) : LogsBreakAt(e, start, i, outbuflen)})))

LogsAt(slots, idx, outbuflen) ==
    IF outbuflen = 0 \/ idx < 0 THEN [rc |-> -1, out |-> ""]
    ELSE LogsCopy(slots[idx + 1], LogStart(slots[idx + 1]), outbuflen)

\* server.c:313-338; rc is the return value, out the C string left in outbuf
server_get_logs_for_mac(slots, mac, outbuflen) ==
    LogsAt(slots, FindCase(slots, mac), outbuflen)

\* server.c:350-353
LiveCopy(e, tocopy) == [rc |-> tocopy, out |-> ImageBytes(e.live_text, tocopy)]

LiveAt(slots, idx, outbuflen) ==
    IF outbuflen = 0 \/ idx < 0 THEN [rc |-> -1, out |-> ""]
    ELSE LiveCopy(slots[idx + 1],
                  IF slots[idx + 1].live_len >= outbuflen THEN outbuflen - 1
                  ELSE slots[idx + 1].live_len)

\* server.c:340-356; out is the byte image copied to outbuf, before its
\* terminating zero byte
server_get_live_text_for_mac(slots, mac, outbuflen) ==
    LiveAt(slots, FindCase(slots, mac), outbuflen)

(***************************************************************************)
(* The receive loop (server.c:78-272) and the queries                      *)
(***************************************************************************)
NoPacket == [buf |-> "", src |-> [ip |-> 0, port |-> 0], fwd |-> <<>>, logged |-> 0]

NoResult == [op |-> "none", mac |-> "", buflen |-> 0, rc |-> 0, out |-> ""]

\* the calling thread between two operations, having made n of them
NoCall ==
    [op |-> "none", pc |-> "idle", mac |-> "", text |-> "", num |-> 0,
     dest |-> [ip |-> 0, port |-> 0], rc |-> 0, out |-> "", n |-> 0]

ExtendHist(h, n) == h \o [i \in 1..(n - Len(h)) |-> <<>>]

\* the history of stored lines after a packet whose diagnostic pass left d
\* and whose telemetry pass left t
HistAfter(h, d, t, buf) ==
    LET h1 == ExtendHist(h, Len(d.slots))
        h2 == IF d.logged > 0 THEN [h1 EXCEPT ![d.logged] = Append(@, buf)] ELSE h1
    IN  ExtendHist(h2, Len(t.slots))

\* server.c:108-266: one round of the loop on a datagram of the given payload.
\* recvfrom stores at most sizeof(buf) - 1 bytes; n <= 0 ends the loop.
Handle(payload, src) ==
    LET buf == Take(payload, RECV_BUF_LEN - 1)
    IN  IF Len(buf) = 0
        THEN /\ rxthread' = "exited"
             /\ server_running' = 0
             /\ lastpkt' = [NoPacket EXCEPT !.src = src]
             /\ UNCHANGED <<maps, hist>>
        ELSE \E d \in {DiagPass(maps, buf, src)} :
               \E t \in {TelemetryPass(d.slots, buf, src)} :
                 /\ maps' = t.slots
                 /\ hist' = HistAfter(hist, d, t, buf)
                 /\ lastpkt' = [buf |-> buf, src |-> src, fwd |-> t.fwd, logged |-> d.logged]
                 /\ UNCHANGED <<rxthread, server_running>>

MacA == "70:55:88:11:22:33"
MacB == "aa:bb:cc:dd:ee:ff"
MacBUpper == "AA:BB:CC:DD:EE:FF"

\* numeric texts: in range, the bounds, out of range, malformed, and one long
\* enough to pass the width of %31s when it follows an identifier and a comma
VTexts == {"3.20", "5.0", "0", "9.9", "-0.1", "3.2z", "z", "1.500000000000"}

TelemetryPayloads ==
    {MacA \o sep \o v : sep \in {" ", ","}, v \in VTexts}
        \cup {MacB \o sep \o "1.5" : sep \in {" ", ","}}

Z8 == "zzzzzzzz"
Z32 == Z8 \o Z8 \o Z8 \o Z8
\* a text longer than a slot of the ring buffer (SERVER_LOG_LINE_LEN - 1 bytes)
LongPad == Z32 \o Z32 \o Z32 \o Z32 \o Z8

OtherPayloads ==
    {"", "status ok", "hello 1.5",
     MacA \o " CONTROL_PIN (D2) state: HIGH",
     "CMD: set D0 = 1",
     "CMD D0 1",
     MacBUpper \o " 1.5",
     MacA \o " " \o LongPad}

Payloads == TelemetryPayloads \cup OtherPayloads

Srcs == {[ip |-> 1, port |-> 1], [ip |-> 1, port |-> 2], [ip |-> 2, port |-> 1]}

MaxPackets == 2

\* the senders of the long streams: 1 is the host at address 1, whose lines
\* start with MacA except every fifth, a note without an identifier; 2 is the
\* device at address 2, whose lines start with MacB
Devs == {1, 2}

\* packets sender 1 sends: the first creates its session, the others are stored
MaxStream == 101

\* packets sender 2 sends
MaxSide == 2

Limit(d) == IF d = 1 THEN MaxStream ELSE MaxSide

SrcOf(d) == [ip |-> d, port |-> 6 + d]

\* the k-th line of MacA: short, a pin report, longer than a slot of the ring
\* buffer, telemetry-shaped; every line carries k near its start
StreamBody(k) ==
    CASE k % 4 = 0 -> "n" \o ToString(k)
      [] k % 4 = 1 -> ToString(k) \o " CONTROL_PIN (D2) state: " \o
                      (IF k % 8 = 1 THEN "HIGH" ELSE "LOW")
      [] k % 4 = 2 -> ToString(k) \o LongPad
      [] k % 4 = 3 -> "3." \o ToString(k)

LineOf(d, k) ==
    IF d = 2 THEN MacB \o " up " \o ToString(k)
    ELSE IF k % 5 = 4 THEN "note " \o ToString(k)
         ELSE MacA \o " " \o StreamBody(k)

InitGateway ==
    /\ maps = <<>>
    /\ lastpkt = NoPacket
    /\ hist = <<>>
    /\ sent = [d \in Devs |-> 0]
    /\ npackets = 0
    /\ ret = NoResult
    /\ rxthread = "none"
    /\ server_running = 0
    /\ mutex = "none"
    /\ call = NoCall
    /\ inflight = 0
    /\ outbox = <<>>

\* server.c:371-379 and 89-106: server_start, and the new thread binding its
\* socket and reaching the loop, or failing to and returning
StartServer ==
    /\ rxthread = "none"
    /\ server_running = 0
    /\ \E bound \in BOOLEAN :
          IF bound THEN rxthread' = "receiving" /\ server_running' = 1
          ELSE rxthread' = "exited" /\ server_running' = 0
    /\ UNCHANGED <<maps, lastpkt, hist, sent, npackets, ret, tvars, xvars, fvars>>

\* one round of the receive loop on any datagram of the menu
RecvPacket ==
    /\ rxthread = "receiving"
    /\ npackets < MaxPackets
    /\ \E payload \in Payloads, src \in Srcs : Handle(payload, src)
    /\ npackets' = npackets + 1
    /\ ret' = NoResult
    /\ UNCHANGED <<sent, tvars, xvars, fvars>>

\* one round of the receive loop on the next datagram of a streaming device
StreamPacket ==
    /\ rxthread = "receiving"
    /\ \E d \in Devs :
          /\ sent[d] < Limit(d)
          /\ Handle(LineOf(d, sent[d]), SrcOf(d))
          /\ sent' = [sent EXCEPT ![d] = @ + 1]
    /\ ret' = NoResult
    /\ UNCHANGED <<npackets, tvars, xvars, fvars>>

\* packets of the filling stream: enough to fill the registry and go on
MaxFill == 26

\* packets from identifiers outside the filling stream
MaxLate == 1

Pad2(k) == IF k < 10 THEN "0" \o ToString(k) ELSE ToString(k)

\* the identifier of the k-th device of the filling stream
FillId(k) == "02:00:00:00:00:" \o Pad2(k)

\* the k-th packet of the filling stream: a diagnostic line, a reading in the
\* space-separated shape, a reading in the comma-separated shape, in turn
FillLine(k) ==
    CASE k % 3 = 0 -> FillId(k) \o " up"
      [] k % 3 = 1 -> FillId(k) \o " 1.5"
      [] k % 3 = 2 -> FillId(k) \o ",1.5"

FillSrc(k) == [ip |-> 10 + (k % 3), port |-> 7]

LateId == "02:00:00:00:00:9a"

\* lines of that identifier, and readings of two identifiers of the filling
\* stream that come from another address than the stream's
LateLines ==
    {LateId \o rest : rest \in {" up", " 1.5", ",1.5"}}
        \cup {FillId(1) \o " 1.5", FillId(2) \o ",1.5"}

\* an address the filling stream uses, and one it does not
LateSrcs == {[ip |-> 10, port |-> 9], [ip |-> 99, port |-> 9]}

\* one round of the receive loop on the next datagram of the filling stream
FillPacket ==
    /\ rxthread = "receiving"
    /\ sent[1] < MaxFill
    /\ Handle(FillLine(sent[1]), FillSrc(sent[1]))
    /\ sent' = [sent EXCEPT ![1] = @ + 1]
    /\ ret' = NoResult
    /\ UNCHANGED <<npackets, tvars, xvars, fvars>>

\* one round of the receive loop on a datagram from another identifier
LatePacket ==
    /\ rxthread = "receiving"
    /\ npackets < MaxLate
    /\ \E payload \in LateLines, src \in LateSrcs : Handle(payload, src)
    /\ npackets' = npackets + 1
    /\ ret' = NoResult
    /\ UNCHANGED <<sent, tvars, xvars, fvars>>

\* output buffers of the queries: one that holds a full ring, one that does not
BigBuf == 16384
SmallBuf == 100

QueryMacs == {MacA, MacB, MacBUpper, "00:00:00:00:00:00"}

\* server.c:313-338, called once between two packets
GetLogs ==
    /\ ret = NoResult
    /\ \E mac \in QueryMacs, n \in {BigBuf, SmallBuf} :
          \E r \in {server_get_logs_for_mac(maps, mac, n)} :
              ret' = [op |-> "logs", mac |-> mac, buflen |-> n, rc |-> r.rc, out |-> r.out]
    /\ UNCHANGED <<maps, lastpkt, hist, sent, npackets, rxthread, server_running, tvars,
                   xvars, fvars>>

\* server.c:340-356, called once between two packets
GetLiveText ==
    /\ ret = NoResult
    /\ \E mac \in QueryMacs, n \in {BigBuf, SmallBuf} :
          \E r \in {server_get_live_text_for_mac(maps, mac, n)} :
              ret' = [op |-> "live", mac |-> mac, buflen |-> n, rc |-> r.rc, out |-> r.out]
    /\ UNCHANGED <<maps, lastpkt, hist, sent, npackets, rxthread, server_running, tvars,
                   xvars, fvars>>

(***************************************************************************)
(* The receive thread and a calling thread, statement by statement: the    *)
(* receive loop takes and releases maps_mutex around each pass, the        *)
(* operations of server.h run on the calling thread.  The calling thread   *)
(* calls server_start only while no receive thread is between its creation *)
(* and its bind.                                                           *)
(***************************************************************************)
\* datagrams the receive thread takes from devices
MaxRx == 2

\* operations the calling thread makes
MaxCalls == 2

ThreadPayloads ==
    {MacA \o " 3.20", MacA \o ",3.20", MacB \o " CONTROL_PIN (D2) state: HIGH", ""}

ThreadSrcs == {[ip |-> 1, port |-> 1], [ip |-> 2, port |-> 1]}

\* the source of the datagram server_stop sends (server.c:391)
Loopback == [ip |-> 127, port |-> 0]

\* positions of the receive thread at which its socket is bound
BoundAt == {"receiving", "diag", "diag_locked", "tel", "tel_lock", "tel_locked"}

\* a slip: the lock is not taken
LockedNobody(t) == "none"

\* pthread_mutex_lock(&maps_mutex) returns: the holder is the thread t
Locked(t) == t

\* a slip: the loop does not look at the run flag
LoopForever(running) == TRUE

\* server.c:108: while (server_running)
LoopGoesOn(running) == running # 0

\* server.c:108 and 268-271: the loop test after a round; leaving the loop
\* closes the socket, and what is queued at it is lost
RoundEnd ==
    IF LoopGoesOn(server_running)
    THEN rxthread' = "receiving" /\ UNCHANGED <<server_running, inflight>>
    ELSE rxthread' = "exited" /\ server_running' = 0 /\ inflight' = 0

\* a slip: a new receive thread starts from an empty registry
RegistryCleared(slots) == <<>>

\* server.c:40-42 and 78-106: maps and maps_count are static and the thread
\* function does not reset them: a new thread finds the registry as it is
RegistryAtStart(slots) == slots

\* server.c:89-106: the new thread binds its socket and sets the run flag, or
\* fails to and returns
RxBind ==
    /\ rxthread = "created"
    /\ \E bound \in BOOLEAN :
          IF bound THEN rxthread' = "receiving" /\ server_running' = 1
          ELSE rxthread' = "failed" /\ UNCHANGED server_running
    /\ maps' = RegistryAtStart(maps)
    /\ UNCHANGED <<lastpkt, hist, sent, npackets, ret, tvars, xvars, fvars>>

\* server.c:111-116: recvfrom returns a datagram of a device; length 0 ends the loop
RxRecvDevice ==
    /\ rxthread = "receiving"
    /\ npackets < MaxRx
    /\ \E payload \in ThreadPayloads, src \in ThreadSrcs :
          IF Len(payload) = 0
          THEN /\ rxthread' = "exited" /\ server_running' = 0 /\ inflight' = 0
               /\ lastpkt' = [NoPacket EXCEPT !.src = src]
          ELSE /\ rxthread' = "diag"
               /\ lastpkt' = [NoPacket EXCEPT !.buf = Take(payload, RECV_BUF_LEN - 1),
                                              !.src = src]
               /\ UNCHANGED <<server_running, inflight>>
    /\ npackets' = npackets + 1
    /\ UNCHANGED <<maps, hist, sent, ret, mutex, call, outbox, xvars, fvars>>

\* server.c:111-116: recvfrom returns the datagram of server_stop, one zero
\* byte: n is 1 and buf is the empty C string
RxRecvWake ==
    /\ rxthread = "receiving"
    /\ inflight > 0
    /\ inflight' = inflight - 1
    /\ rxthread' = "diag"
    /\ lastpkt' = [NoPacket EXCEPT !.src = Loopback]
    /\ UNCHANGED <<maps, hist, sent, npackets, server_running, ret, mutex, call, outbox,
                   xvars, fvars>>

\* server.c:112-115: recvfrom returns -1; EINTR goes back to the loop test,
\* any other error leaves the loop
RxRecvFail ==
    /\ rxthread = "receiving"
    /\ \E eintr \in BOOLEAN :
          IF eintr /\ LoopGoesOn(server_running)
          THEN UNCHANGED <<rxthread, server_running, inflight>>
          ELSE rxthread' = "exited" /\ server_running' = 0 /\ inflight' = 0
    /\ UNCHANGED <<maps, lastpkt, hist, sent, npackets, ret, mutex, call, outbox,
                   xvars, fvars>>

\* server.c:135-139 and 191: with a first token the pass takes the lock,
\* without one it is skipped
RxDiagLock ==
    /\ rxthread = "diag"
    /\ IF Sscanf(lastpkt.buf, FmtFirstTok).n = 1
       THEN mutex = "none" /\ mutex' = Locked("rx") /\ rxthread' = "diag_locked"
       ELSE rxthread' = "tel" /\ UNCHANGED mutex
    /\ UNCHANGED <<maps, lastpkt, hist, sent, npackets, server_running, ret, call,
                   inflight, outbox, xvars, fvars>>

\* server.c:140-188 and 192-195: the diagnostic pass and the unlock
RxDiag ==
    /\ rxthread = "diag_locked"
    /\ \E d \in {DiagPass(maps, lastpkt.buf, lastpkt.src)} :
          /\ maps' = d.slots
          /\ hist' = HistAfter(hist, d, d, lastpkt.buf)
          /\ lastpkt' = [lastpkt EXCEPT !.logged = d.logged]
    /\ mutex' = "none"
    /\ rxthread' = "tel"
    /\ UNCHANGED <<sent, npackets, server_running, ret, call, inflight, outbox,
                   xvars, fvars>>

\* server.c:201-212 and 238-245: the two sscanf calls, the range test and the
\* call of the consumer; without a reading the round ends
RxForward ==
    /\ rxthread = "tel"
    /\ \E t \in {TelemetryPass(<<>>, lastpkt.buf, lastpkt.src)} :
          IF t.fwd # <<>>
          THEN /\ lastpkt' = [lastpkt EXCEPT !.fwd = t.fwd]
               /\ rxthread' = "tel_lock"
               /\ UNCHANGED <<server_running, inflight>>
          ELSE RoundEnd /\ UNCHANGED lastpkt
    /\ UNCHANGED <<maps, hist, sent, npackets, ret, mutex, call, outbox, xvars, fvars>>

\* server.c:215 and 247
RxTelLock ==
    /\ rxthread = "tel_lock"
    /\ mutex = "none"
    /\ mutex' = Locked("rx")
    /\ rxthread' = "tel_locked"
    /\ UNCHANGED <<maps, lastpkt, hist, sent, npackets, server_running, ret, call,
                   inflight, outbox, xvars, fvars>>

\* server.c:216-232 and 248-260: the address is stored, the lock released,
\* and the round ends
RxTelStore ==
    /\ rxthread = "tel_locked"
    /\ \E t \in {TelemetryPass(maps, lastpkt.buf, lastpkt.src)} :
          /\ maps' = t.slots
          /\ hist' = ExtendHist(hist, Len(t.slots))
    /\ mutex' = "none"
    /\ RoundEnd
    /\ UNCHANGED <<lastpkt, sent, npackets, ret, call, outbox, xvars, fvars>>

\* server.c:108-266 in one step, for the runs that look at server_stop only:
\* the receive thread takes a datagram of a device, makes both passes over it
\* and comes to the loop test
DeviceRound ==
    /\ rxthread = "receiving"
    /\ npackets < MaxRx
    /\ \E payload \in ThreadPayloads, src \in ThreadSrcs :
          IF Len(payload) = 0
          THEN /\ rxthread' = "exited" /\ server_running' = 0 /\ inflight' = 0
               /\ lastpkt' = [NoPacket EXCEPT !.src = src]
               /\ UNCHANGED <<maps, hist>>
          ELSE \E d \in {DiagPass(maps, Take(payload, RECV_BUF_LEN - 1), src)} :
                 \E t \in {TelemetryPass(d.slots, Take(payload, RECV_BUF_LEN - 1), src)} :
                   /\ maps' = t.slots
                   /\ hist' = HistAfter(hist, d, t, Take(payload, RECV_BUF_LEN - 1))
                   /\ lastpkt' = [buf |-> Take(payload, RECV_BUF_LEN - 1), src |-> src,
                                  fwd |-> t.fwd, logged |-> d.logged]
                   /\ RoundEnd
    /\ npackets' = npackets + 1
    /\ UNCHANGED <<sent, ret, mutex, call, outbox, xvars, fvars>>

\* the same for the datagram of server_stop: buf is the empty C string
WakeRound ==
    /\ rxthread = "receiving"
    /\ inflight > 0
    /\ maps' = TelemetryPass(DiagPass(maps, "", Loopback).slots, "", Loopback).slots
    /\ lastpkt' = [NoPacket EXCEPT !.src = Loopback]
    /\ IF LoopGoesOn(server_running)
       THEN rxthread' = "receiving" /\ inflight' = inflight - 1 /\ UNCHANGED server_running
       ELSE rxthread' = "exited" /\ server_running' = 0 /\ inflight' = 0
    /\ UNCHANGED <<hist, sent, npackets, ret, mutex, call, outbox, xvars, fvars>>

\* identifiers the calling thread asks about
CallMacs == {MacA, MacB, MacBUpper}

\* the operations on the registry with their arguments
CallArgs ==
    {[op |-> "cmd", text |-> "", num |-> a] : a \in {0, 1}}
        \cup {[op |-> "text", text |-> "hello", num |-> 0]}
        \cup {[op |-> o, text |-> "", num |-> BigBuf] : o \in {"logs", "live"}}
        \cup {[op |-> "state", text |-> "", num |-> 0]}

\* server.c:287-289: snprintf(msg, sizeof(msg), "D0 %d", activate ? 1 : 0)
CmdMsg(activate) == "D0 " \o (IF activate # 0 THEN "1" ELSE "0")

StateAt(slots, idx) == IF idx >= 0 THEN slots[idx + 1].last_output_state ELSE -1

\* server.c:358-369
server_get_output_state_for_mac(slots, mac) == StateAt(slots, FindCase(slots, mac))

\* server.c:280-283 and 301-304: the entry strcmp found gives the destination
SendFound(c, slots, idx) ==
    IF idx >= 0 THEN [c EXCEPT !.pc = "send", !.dest = slots[idx + 1].addr]
    ELSE [c EXCEPT !.pc = "done", !.rc = -1]

Answer(c, r) == [c EXCEPT !.pc = "done", !.rc = r.rc, !.out = r.out]

\* what the operation of c does with the registry while it holds the lock
LookupDone(c, slots) ==
    CASE c.op \in {"cmd", "text"} -> SendFound(c, slots, FindExact(slots, c.mac))
      [] c.op = "logs" -> Answer(c, server_get_logs_for_mac(slots, c.mac, c.num))
      [] c.op = "live" -> Answer(c, server_get_live_text_for_mac(slots, c.mac, c.num))
      [] c.op = "state" ->
            Answer(c, [rc |-> server_get_output_state_for_mac(slots, c.mac), out |-> ""])

\* a slip: a lookup that finds the session resets its output state
LookupResetsState(c, slots) ==
    IF FindCase(slots, c.mac) >= 0
    THEN [slots EXCEPT ![FindCase(slots, c.mac) + 1].last_output_state = -1]
    ELSE slots

\* server.c:279-283, 300-304, 316-337, 343-355, 361-368: the operation of c
\* reads the entries and writes none
RegistryAfterLookup(c, slots) == slots

CallIdle == call.pc \in {"idle", "done"} /\ call.n < MaxCalls

\* a call of one of the five operations on the registry, up to its lock
CallBegin ==
    /\ CallIdle
    /\ \E a \in CallArgs, mac \in CallMacs :
          call' = [NoCall EXCEPT !.op = a.op, !.text = a.text, !.num = a.num,
                                 !.mac = mac, !.pc = "lock", !.n = call.n + 1]
    /\ UNCHANGED <<maps, lastpkt, hist, sent, npackets, rxthread, server_running, ret,
                   mutex, inflight, outbox, xvars, fvars>>

\* server.c:278, 299, 315, 342, 360
CallLock ==
    /\ call.pc = "lock"
    /\ mutex = "none"
    /\ mutex' = Locked("caller")
    /\ call' = [call EXCEPT !.pc = "locked"]
    /\ UNCHANGED <<maps, lastpkt, hist, sent, npackets, rxthread, server_running, ret,
                   inflight, outbox, xvars, fvars>>

\* server.c:279-283, 300-304, 316-337, 343-355, 361-368: the lookup, the
\* copy and the unlock
CallLookup ==
    /\ call.pc = "locked"
    /\ call' = LookupDone(call, maps)
    /\ maps' = RegistryAfterLookup(call, maps)
    /\ mutex' = "none"
    /\ UNCHANGED <<lastpkt, hist, sent, npackets, rxthread, server_running, ret,
                   inflight, outbox, xvars, fvars>>

\* server.c:285-292 and 306-310: socket, sendto, close; rc is 0 when sendto
\* returned the length of the payload
CallSend ==
    /\ call.pc = "send"
    /\ \E outcome \in {"nosocket", "failed", "sent"} :
          /\ outbox' = IF outcome = "sent"
                       THEN Append(outbox,
                                   [dest |-> call.dest,
                                    payload |-> IF call.op = "cmd" THEN CmdMsg(call.num)
                                                ELSE call.text])
                       ELSE outbox
          /\ call' = [call EXCEPT !.pc = "done", !.rc = IF outcome = "sent" THEN 0 ELSE -1]
    /\ UNCHANGED <<maps, lastpkt, hist, sent, npackets, rxthread, server_running, ret,
                   mutex, inflight, xvars, fvars>>

\* server.c:371-379: server_start
StartCall ==
    /\ CallIdle
    /\ server_running # 0 \/ rxthread \in {"none", "exited", "failed"}
    /\ \E created \in BOOLEAN :
          /\ rxthread' = IF server_running = 0 /\ created THEN "created" ELSE rxthread
          /\ call' = [NoCall EXCEPT !.op = "start", !.pc = "done", !.n = call.n + 1,
                                    !.rc = IF server_running # 0 \/ created THEN 0 ELSE -1]
    /\ UNCHANGED <<maps, lastpkt, hist, sent, npackets, server_running, ret, mutex,
                   inflight, outbox, xvars, fvars>>

\* server.c:382-383: server_stop returns at once when the flag is clear, and
\* clears it otherwise
StopBegin ==
    /\ CallIdle
    /\ IF server_running = 0
       THEN /\ call' = [NoCall EXCEPT !.op = "stop", !.pc = "done", !.n = call.n + 1]
            /\ UNCHANGED server_running
       ELSE /\ call' = [NoCall EXCEPT !.op = "stop", !.pc = "wake", !.n = call.n + 1]
            /\ server_running' = 0
    /\ UNCHANGED <<maps, lastpkt, hist, sent, npackets, rxthread, ret, mutex, inflight,
                   outbox, xvars, fvars>>

\* server.c:385-394: the datagram to the gateway's own port; it is queued when
\* socket and sendto succeed and the port is bound.  num records whether the
\* datagram was sent.
StopWake ==
    /\ call.pc = "wake"
    /\ \E woke \in BOOLEAN :
          /\ inflight' = IF woke /\ rxthread \in BoundAt THEN inflight + 1 ELSE inflight
          /\ call' = [call EXCEPT !.pc = "join", !.num = IF woke THEN 1 ELSE 0]
    /\ UNCHANGED <<maps, lastpkt, hist, sent, npackets, rxthread, server_running, ret,
                   mutex, outbox, xvars, fvars>>

\* server.c:395: pthread_join returns once the thread has returned
StopJoin ==
    /\ call.pc = "join"
    /\ rxthread \in {"exited", "failed"}
    /\ call' = [call EXCEPT !.pc = "done"]
    /\ UNCHANGED <<maps, lastpkt, hist, sent, npackets, rxthread, server_running, ret,
                   mutex, inflight, outbox, xvars, fvars>>

(***************************************************************************)
(* flash_thread_fn (flash.c:106-182) and its trigger (flash.c:184-191)     *)
(***************************************************************************)
SERIAL_WAIT_SEC == 60

\* flash.c:77 the loop polls ten times a second
POLLS_PER_SEC == 10

\* flash.c:76 char buf[256]
LINE_BUF_LEN == 256

\* the calls the workflow makes to the outside, as recorded in trace
Status(text) == [k |-> "status", text |-> text, null |-> FALSE]

\* moisture_flash_status_update(NULL)
StatusNull == [k |-> "status", text |-> "", null |-> TRUE]

\* moisture_add_plot_for_sensor(mac) and moisture_add_plot_for_sensor(NULL)
Notify(mac) == [k |-> "notify", text |-> mac, null |-> FALSE]

NotifyNull == [k |-> "notify", text |-> "", null |-> TRUE]

\* popen of the compile or the upload command; null when it returned NULL
Popen(cmd, started) == [k |-> cmd, text |-> "", null |-> ~started]

\* lines a command may print
MaxOutLines == 1

\* flash.c:148 and 164: the n lines of output, each handed to the status sink
OutLines(cmd, n) == [i \in 1..n |-> Status(cmd \o " output " \o ToString(i) \o "\n")]

\* before the call, and after its return with the value rc
NoTrigger == [pc |-> "idle", rc |-> 0]

\* a slip: the trigger reports success whatever pthread_create gave
TriggerRcZero(created) == 0

\* flash.c:188 and 190: the value the trigger returns
TriggerRc(created) == IF created THEN 0 ELSE -1

\* flash.c:186-188: pthread_create; when it fails the trigger tells the
\* status sink and returns
StartFlash ==
    /\ pc = "idle"
    /\ trigger.pc = "idle"
    /\ \E created \in BOOLEAN :
          IF created
          THEN /\ pc' = "search"
               /\ trigger' = [pc |-> "detach", rc |-> 0]
               /\ UNCHANGED trace
          ELSE /\ pc' = "nothread"
               /\ trace' = Append(trace, Status("pthread_create failed: Resource temporarily unavailable"))
               /\ trigger' = [pc |-> "returned", rc |-> TriggerRc(FALSE)]
    /\ UNCHANGED <<created_tmp, tmpfiles, compile_ok, script, ticks, pos, linebuf,
                   fd_open, fd_closes, avars, xvars, gvars>>

\* flash.c:189-190: pthread_detach(t); return 0; the new thread runs meanwhile
FlashReturn ==
    /\ trigger.pc = "detach"
    /\ trigger' = [pc |-> "returned", rc |-> TriggerRc(TRUE)]
    /\ UNCHANGED <<pc, created_tmp, tmpfiles, compile_ok, trace, script, ticks, pos,
                   linebuf, fd_open, fd_closes, avars, xvars, gvars>>

\* a slip: the workflow goes on without a device
SearchFailGoesOn(tr) ==
    [pc |-> "prepare", trace |-> tr \o <<Status("No serial device found"), NotifyNull>>]

\* flash.c:112 the first search found no device: the thread returns
SearchFail(tr) ==
    [pc |-> "returned", trace |-> tr \o <<Status("No serial device found"), NotifyNull>>]

SearchStep(tr, found) == IF found THEN [pc |-> "prepare", trace |-> tr] ELSE SearchFail(tr)

\* flash.c:111-112
SearchDevice ==
    /\ pc = "search"
    /\ \E found \in BOOLEAN :
          \E r \in {SearchStep(Append(trace, Status("Searching for serial device...")), found)} :
              pc' = r.pc /\ trace' = r.trace
    /\ UNCHANGED <<created_tmp, tmpfiles, compile_ok, script, ticks, pos, linebuf,
                   fd_open, fd_closes, trigger, avars, xvars, gvars>>

\* flash.c:116-135: what the run leaves under /tmp when a configuration value
\* is set; fr, fw, fc tell whether the three fopen calls succeed
Materialized(fr, fw, fc) ==
    {"dir"} \cup (IF fr /\ fw THEN {"plant_sensor.ino"} ELSE {})
            \cup (IF fr /\ fc THEN {"config.h"} ELSE {})

\* flash.c:114-135
PrepareSource ==
    /\ pc = "prepare"
    /\ \E env \in BOOLEAN, fr \in BOOLEAN, fw \in BOOLEAN, fc \in BOOLEAN :
          /\ tmpfiles' = IF env THEN Materialized(fr, fw, fc) ELSE {}
          /\ created_tmp' = (env /\ fr /\ fc)
    /\ pc' = "compile"
    /\ UNCHANGED <<compile_ok, trace, script, ticks, pos, linebuf, fd_open, fd_closes,
                   trigger, avars, xvars, gvars>>

\* flash.c:146-156: what follows popen of the compile command
CompileEvents(started, n, rc) ==
    IF started
    THEN OutLines("compile", n) \o
         (IF rc = 0 THEN <<>> ELSE <<Status("Compile failed (rc=" \o ToString(rc) \o ")")>>)
    ELSE <<Status("Failed to run arduino-cli compile")>>

\* flash.c:137-156 and 170
Compile ==
    /\ pc = "compile"
    /\ \E cli \in BOOLEAN :
          IF cli
          THEN \E started \in BOOLEAN, n \in 0..MaxOutLines, rc \in {0, 256} :
                  /\ trace' = trace \o <<Status("Compiling sketch..."), Popen("compile", started)>>
                                    \o CompileEvents(started, n, rc)
                  /\ compile_ok' = (started /\ rc = 0)
                  /\ pc' = "upload"
          ELSE /\ trace' = Append(trace, Status("arduino-cli not found; skipping flash"))
               /\ pc' = "rediscover"
               /\ UNCHANGED compile_ok
    /\ UNCHANGED <<created_tmp, tmpfiles, script, ticks, pos, linebuf, fd_open, fd_closes,
                   trigger, avars, xvars, gvars>>

\* a slip: the upload runs whatever the compile step gave
UploadAlways(ok) == TRUE

\* flash.c:158 if (compile_ok)
UploadAllowed(ok) == ok

\* pclose of a command returned the wait status rc
Pclose(cmd, rc) == [k |-> "pclose", text |-> cmd \o " " \o ToString(rc), null |-> FALSE]

\* flash.c:163-166: what follows popen of the upload command; the value of
\* pclose is not looked at
UploadEvents(started, n, rc) ==
    IF started THEN OutLines("upload", n) \o <<Pclose("upload", rc)>>
    ELSE <<Status("Failed to run arduino-cli upload")>>

\* a slip: a failed upload ends the run
AfterUploadStops(started, rc) == IF started /\ rc = 0 THEN "rediscover" ELSE "cleanup"

\* flash.c:166-172: whatever the upload gave, the device is looked for again
AfterUpload(started, rc) == "rediscover"

\* flash.c:158-169
Upload ==
    /\ pc = "upload"
    /\ IF UploadAllowed(compile_ok)
       THEN \E started \in BOOLEAN, n \in 0..MaxOutLines, rc \in {0, 256} :
               /\ trace' = trace \o <<Status("Flashing device..."), Popen("upload", started)>>
                                 \o UploadEvents(started, n, rc)
               /\ pc' = AfterUpload(started, rc)
       ELSE /\ trace' = Append(trace, Status("Skipping upload due to compile errors"))
            /\ pc' = "rediscover"
    /\ UNCHANGED <<created_tmp, tmpfiles, compile_ok, script, ticks, pos, linebuf,
                   fd_open, fd_closes, trigger, avars, xvars, gvars>>

\* the outcomes of read(fd, .., 1), one per poll: a byte, or one of these
ReadMarks == {"EAGAIN", "EOF", "ERR"}

Bytes(str) == [i \in 1..Len(str) |-> Ch(str, i)]

Z250 == Z32 \o Z32 \o Z32 \o Z32 \o Z32 \o Z32 \o Z32 \o Z8 \o Z8 \o Z8 \o "zz"

\* what the serial line delivers: ops one read after the other, then tail for ever
Scripts ==
    {[ops |-> <<>>, tail |-> "EAGAIN"],
     [ops |-> <<>>, tail |-> "EOF"],
     [ops |-> Bytes("boot ok " \o Mac0 \o " ready\n"), tail |-> "EAGAIN"],
     [ops |-> <<"EAGAIN">> \o Bytes("x\rAA:bb:CC:dd:EE:0f\r"), tail |-> "EAGAIN"],
     [ops |-> Bytes(Mac0), tail |-> "EAGAIN"],
     [ops |-> Bytes("aa:bb:cc:dd:ee:f\n") \o <<"ERR">>, tail |-> "EAGAIN"],
     [ops |-> Bytes(Z250 \o Mac0 \o "\n"), tail |-> "EAGAIN"]}

ReadAt(sc, n) == IF n <= Len(sc.ops) THEN sc.ops[n] ELSE sc.tail

\* a slip: the consumer is not told that no identifier came
UnregisteredSilent == <<Status("No registration received; adding unassigned plot")>>

\* flash.c:175 wait_for_registration_on_serial did not return 0
Unregistered == <<Status("No registration received; adding unassigned plot"), NotifyNull>>

\* a slip: the identifier buffer is handed over as it was initialised
RegisteredBlank(mac) == <<Status("Registered " \o mac), Notify("")>>

\* flash.c:174 wait_for_registration_on_serial returned 0 with mac
Registered(mac) == <<Status("Registered " \o mac), Notify(mac)>>

\* flash.c:172-176 up to the first poll; opened tells whether open_serial_rd
\* (flash.c:34-46, 71-72) gives a descriptor
Rediscover ==
    /\ pc = "rediscover"
    /\ \E found \in BOOLEAN, opened \in BOOLEAN :
          IF ~found
          THEN /\ trace' = trace \o <<Status("No serial device found after upload"), NotifyNull>>
               /\ pc' = "cleanup"
               /\ UNCHANGED <<script, fd_open>>
          ELSE IF ~opened
               THEN /\ trace' = trace \o <<Status("Using serial device /dev/ttyACM0 for registration")>>
                                      \o Unregistered
                    /\ pc' = "cleanup"
                    /\ UNCHANGED <<script, fd_open>>
               ELSE /\ trace' = Append(trace, Status("Using serial device /dev/ttyACM0 for registration"))
                    /\ pc' = "wait"
                    /\ fd_open' = fd_open + 1
                    /\ script' \in Scripts
    /\ ticks' = 0
    /\ pos' = 0
    /\ linebuf' = ""
    /\ UNCHANGED <<created_tmp, tmpfiles, compile_ok, fd_closes, trigger, avars, xvars, gvars>>

\* a slip: the handle is left open
LeakSerial == UNCHANGED <<fd_open, fd_closes>>

\* flash.c:83, 93: close(fd)
CloseSerial ==
    /\ fd_open' = fd_open - 1
    /\ fd_closes' = fd_closes + 1

\* flash.c:81-84: a line terminator was read; e is what extract_mac_from_string
\* gives for the line
LineEnd(e) ==
    IF e.rc = 0
    THEN /\ CloseSerial
         /\ trace' = trace \o Registered(e.out)
         /\ pc' = "cleanup"
         /\ UNCHANGED <<pos, linebuf>>
    ELSE /\ pos' = 0
         /\ linebuf' = ""
         /\ UNCHANGED <<fd_open, fd_closes, trace, pc>>

\* flash.c:86: another byte c was stored at buf[pos]
LineByte(c) ==
    /\ IF pos + 1 >= LINE_BUF_LEN - 1
       THEN pos' = 0 /\ linebuf' = ""
       ELSE pos' = pos + 1 /\ linebuf' = linebuf \o c
    /\ UNCHANGED <<fd_open, fd_closes, trace, pc>>

\* flash.c:80-91: what one poll does with the outcome r of its read
PollOutcome(r) ==
    CASE r = "EAGAIN" ->
            /\ trace' = IF (ticks + 1) % POLLS_PER_SEC = 0
                        THEN Append(trace, Status("Waiting for serial registration..."))
                        ELSE trace
            /\ UNCHANGED <<pos, linebuf, fd_open, fd_closes, pc>>
      [] r = "EOF" -> UNCHANGED <<trace, pos, linebuf, fd_open, fd_closes, pc>>
      [] r = "ERR" ->
            /\ CloseSerial
            /\ trace' = trace \o <<Status("Serial read error: Input/output error")>> \o Unregistered
            /\ pc' = "cleanup"
            /\ UNCHANGED <<pos, linebuf>>
      [] r \in {"\n", "\r"} -> LineEnd(extract_mac_from_string(linebuf, MAC_BUF_LEN))
      [] OTHER -> LineByte(r)

\* a slip: the loop has no limit
PollsLeftAlways(t) == TRUE

\* flash.c:77: while (ticks < timeout_sec * 10)
PollsLeft(t) == t < SERIAL_WAIT_SEC * POLLS_PER_SEC

\* flash.c:77-91: one round of the wait loop
WaitPoll ==
    /\ pc = "wait"
    /\ PollsLeft(ticks)
    /\ ticks' = ticks + 1
    /\ PollOutcome(ReadAt(script, ticks + 1))
    /\ UNCHANGED <<created_tmp, tmpfiles, compile_ok, script, trigger, avars, xvars, gvars>>

\* flash.c:77, 93, 175: the loop ends after the last poll
WaitTimeout ==
    /\ pc = "wait"
    /\ ~PollsLeft(ticks)
    /\ CloseSerial
    /\ trace' = trace \o Unregistered
    /\ pc' = "cleanup"
    /\ UNCHANGED <<created_tmp, tmpfiles, compile_ok, script, ticks, pos, linebuf, trigger, avars, xvars, gvars>>

\* flash.c:178-181
Cleanup ==
    /\ pc = "cleanup"
    /\ tmpfiles' = IF created_tmp THEN {} ELSE tmpfiles
    /\ trace' = Append(trace, StatusNull)
    /\ pc' = "returned"
    /\ UNCHANGED <<created_tmp, compile_ok, script, ticks, pos, linebuf, fd_open, fd_closes,
                   trigger, avars, xvars, gvars>>

\* the single-run variables, which the two-thread actions leave alone
onevars == <<pc, created_tmp, tmpfiles, compile_ok, trace, script, ticks, pos,
             linebuf, fd_open, fd_closes, trigger>>

\* the two workflow threads
Attempts == {1, 2}

\* flash.c:29
FIRMWARE_PATH == "firmware/plant_sensor"

\* flash.c:115: use_path and created_tmp as the thread starts with them
NoAttempt == [pc |-> "idle", use_path |-> FIRMWARE_PATH, created_tmp |-> FALSE]

\* getpid() of the process both threads belong to, as %d prints it
Pid == "4711"

\* flash.c:117: snprintf(tmpdir, sizeof(tmpdir), "/tmp/plant_sensor_%d", (int)getpid())
TmpDirOf(a) == "/tmp/plant_sensor_" \o Pid

SketchIn(dir) == dir \o "/plant_sensor.ino"

ConfigIn(dir) == dir \o "/config.h"

\* flash.c:117-133: the paths that exist in dir after mkdir and the three
\* fopen calls, which succeed or not as fr, fw, fc tell
MadeIn(dir, fr, fw, fc) ==
    {dir} \cup (IF fr /\ fw THEN {SketchIn(dir)} ELSE {})
          \cup (IF fr /\ fc THEN {ConfigIn(dir)} ELSE {})

\* flash.c:184-190 and 111-112: the trigger starts a thread whatever other
\* thread is under way; the thread finds a device or returns
TwoTrigger(a) ==
    /\ attempts[a].pc = "idle"
    /\ \E found \in BOOLEAN :
          attempts' = [attempts EXCEPT ![a].pc = IF found THEN "prepare" ELSE "returned"]
    /\ UNCHANGED <<fs, onevars, xvars, gvars>>

\* flash.c:114-135 with a configuration value set
TwoPrepare(a) ==
    /\ attempts[a].pc = "prepare"
    /\ \E fr \in BOOLEAN, fw \in BOOLEAN, fc \in BOOLEAN :
          /\ fs' = fs \cup MadeIn(TmpDirOf(a), fr, fw, fc)
          /\ attempts' = [attempts EXCEPT
                             ![a].pc = "compile",
                             ![a].created_tmp = fr /\ fc,
                             ![a].use_path = IF fr /\ fc THEN TmpDirOf(a) ELSE FIRMWARE_PATH]
    /\ UNCHANGED <<onevars, xvars, gvars>>

\* flash.c:137-156: the compile command reads use_path
TwoCompile(a) ==
    /\ attempts[a].pc = "compile"
    /\ attempts' = [attempts EXCEPT ![a].pc = "upload"]
    /\ UNCHANGED <<fs, onevars, xvars, gvars>>

\* flash.c:158-176: the upload command reads use_path; the second search and
\* the wait on the serial line follow
TwoUpload(a) ==
    /\ attempts[a].pc = "upload"
    /\ attempts' = [attempts EXCEPT ![a].pc = "cleanup"]
    /\ UNCHANGED <<fs, onevars, xvars, gvars>>

\* flash.c:178-181: unlink of the two files and rmdir
TwoCleanup(a) ==
    /\ attempts[a].pc = "cleanup"
    /\ fs' = IF attempts[a].created_tmp
             THEN fs \ {SketchIn(TmpDirOf(a)), ConfigIn(TmpDirOf(a)), TmpDirOf(a)}
             ELSE fs
    /\ attempts' = [attempts EXCEPT ![a].pc = "returned"]
    /\ UNCHANGED <<onevars, xvars, gvars>>

InitFlashIdle ==
    /\ pc = "idle"
    /\ created_tmp = FALSE
    /\ tmpfiles = {}
    /\ compile_ok = FALSE
    /\ trace = <<>>
    /\ script = [ops |-> <<>>, tail |-> "EAGAIN"]
    /\ ticks = 0
    /\ pos = 0
    /\ linebuf = ""
    /\ fd_open = 0
    /\ fd_closes = 0
    /\ trigger = NoTrigger
    /\ attempts = [a \in Attempts |-> NoAttempt]
    /\ fs = {}

InitExtract ==
    /\ xin \in XInputs
    /\ xout = Pending
    /\ InitFlashIdle
    /\ InitGateway

\* flash.c:83: the line is handed to extract_mac_from_string with the caller's buffer
Extract ==
    /\ xout = Pending
    /\ xout' = extract_mac_from_string(xin, MAC_BUF_LEN)
    /\ UNCHANGED <<xin, fvars, gvars>>

NextExtract == Extract

SpecExtract == InitExtract /\ [][NextExtract]_vars

InitHarnessIdle ==
    /\ xin = ""
    /\ xout = Pending

Init ==
    /\ InitGateway
    /\ InitFlashIdle
    /\ InitHarnessIdle

Next ==
    \/ StartServer
    \/ RecvPacket

Spec == Init /\ [][Next]_vars

NextFlash ==
    \/ StartFlash
    \/ FlashReturn
    \/ SearchDevice
    \/ PrepareSource
    \/ Compile
    \/ Upload
    \/ Rediscover
    \/ WaitPoll
    \/ WaitTimeout
    \/ Cleanup

SpecFlash == Init /\ [][NextFlash]_vars

\* the workflow thread is scheduled: a poll of the wait loop that can be made
\* is made, and the loop is left when its test fails
SpecFlashFair == SpecFlash /\ WF_vars(WaitPoll \/ WaitTimeout)

NextRing ==
    \/ StartServer
    \/ StreamPacket
    \/ GetLogs
    \/ GetLiveText

SpecRing == Init /\ [][NextRing]_vars

NextFill ==
    \/ StartServer
    \/ FillPacket
    \/ LatePacket

SpecFill == Init /\ [][NextFill]_vars

NextTwo ==
    \E a \in Attempts :
        \/ TwoTrigger(a)
        \/ TwoPrepare(a)
        \/ TwoCompile(a)
        \/ TwoUpload(a)
        \/ TwoCleanup(a)

SpecTwo == Init /\ [][NextTwo]_vars

NextThreads ==
    \/ StartCall
    \/ StopBegin
    \/ StopWake
    \/ StopJoin
    \/ CallBegin
    \/ CallLock
    \/ CallLookup
    \/ CallSend
    \/ RxBind
    \/ RxRecvDevice
    \/ RxRecvWake
    \/ RxRecvFail
    \/ RxDiagLock
    \/ RxDiag
    \/ RxForward
    \/ RxTelLock
    \/ RxTelStore

SpecThreads == Init /\ [][NextThreads]_vars

NextStop ==
    \/ StartCall
    \/ StopBegin
    \/ StopWake
    \/ StopJoin
    \/ RxBind
    \/ DeviceRound
    \/ WakeRound
    \/ RxRecvFail

\* both threads are scheduled: the receive thread binds and takes a datagram
\* that is queued, the calling thread goes on inside server_stop; whether a
\* device sends a datagram is left open
SpecStop ==
    /\ Init
    /\ [][NextStop]_vars
    /\ WF_vars(RxBind \/ WakeRound)
    /\ WF_vars(StopWake \/ StopJoin)

(***************************************************************************)
(* Identifier-shaped windows, as the claims describe them                  *)
(***************************************************************************)
\* the pattern xx:xx:xx:xx:xx:xx, written out position by position
IsMacShaped(w) ==
    /\ Len(w) = 17
    /\ \A i \in {3, 6, 9, 12, 15} : Ch(w, i) = ":"
    /\ \A i \in {1, 2, 4, 5, 7, 8, 10, 11, 13, 14, 16, 17} :
           Ch(w, i) \in Digits \cup LowerHex \cup UpperHex

WindowStarts(s) ==
    {p \in 1..Len(s) : p + 16 <= Len(s) /\ IsMacShaped(SubSeq(s, p, p + 16))}

(***************************************************************************)
(* C1, C2, C3, C4: the provisioning workflow                               *)
(***************************************************************************)
IsStatus(e) == e.k = "status"

IsNotify(e) == e.k = "notify"

\* C1: on every run of flash_thread_fn, whichever path it takes, the workflow
\* notifies the consumer once (Finalize), leaves no temporary copy it created
\* (Cleanup), and its last call to the status sink is the null 'done' status,
\* made exactly once.
C1_EveryRunEndsWithDone ==
    pc = "returned" =>
        /\ Len(SelectSeq(trace, IsNotify)) = 1
        /\ (created_tmp => tmpfiles = {})
        /\ SelectSeq(trace, IsStatus) # <<>>
        /\ SelectSeq(trace, IsStatus)[Len(SelectSeq(trace, IsStatus))] = StatusNull
        /\ Cardinality({i \in 1..Len(trace) : trace[i] = StatusNull}) = 1

\* the first search of the run found no device
FirstSearchFailed == \E i \in 1..Len(trace) : trace[i] = Status("No serial device found")

\* C2: if the first search for a serial device fails, the consumer is notified
\* with the null signal and no compile or upload command is invoked in the run.
C2_SearchFailureStopsRun ==
    FirstSearchFailed =>
        /\ SelectSeq(trace, IsNotify) = <<NotifyNull>>
        /\ \A i \in 1..Len(trace) : trace[i].k \notin {"compile", "upload"}
        /\ pc = "returned"

\* a run has ended after its first search failed
C2_Witness == FirstSearchFailed /\ pc = "returned" /\ Len(trace) = 3

\* the compile command was started and exited nonzero
CompileExitedNonzero ==
    /\ ~compile_ok
    /\ \E i \in 1..Len(trace) : trace[i] = Popen("compile", TRUE)

\* the compile command could not be started
CompileNotStarted == \E i \in 1..Len(trace) : trace[i] = Popen("compile", FALSE)

SkippingUpload == Status("Skipping upload due to compile errors")

\* C3: if the compile command exits nonzero or cannot be started, the upload
\* command is never invoked in the run, and the status sink receives the
\* 'Skipping upload' message before the registration notification is made.
C3_CompileFailureSkipsUpload ==
    (CompileExitedNonzero \/ CompileNotStarted) =>
        /\ \A i \in 1..Len(trace) : trace[i].k # "upload"
        /\ \A i \in 1..Len(trace) :
               trace[i].k = "notify" => \E j \in 1..(i - 1) : trace[j] = SkippingUpload
        /\ pc \in {"rediscover", "wait", "cleanup", "returned"} =>
               \E j \in 1..Len(trace) : trace[j] = SkippingUpload

\* a run whose compile command exited nonzero has notified the consumer and ended
C3_Witness ==
    /\ CompileExitedNonzero
    /\ pc = "returned"
    /\ \E i \in 1..Len(trace) : trace[i].k = "notify"

RECURSIVE JoinBytes(_, _, _)
\* the bytes among ops[lo..hi-1], in order
JoinBytes(ops, lo, hi) ==
    IF lo >= hi THEN ""
    ELSE IF lo + 1 = hi THEN (IF ops[lo] \in ReadMarks THEN "" ELSE ops[lo])
         ELSE JoinBytes(ops, lo, (lo + hi) \div 2) \o JoinBytes(ops, (lo + hi) \div 2, hi)

\* the bytes the wait loop has read from the serial line so far
ReadText ==
    JoinBytes(script.ops, 1, (IF ticks < Len(script.ops) THEN ticks ELSE Len(script.ops)) + 1)

Terminators(t) == {p \in 1..Len(t) : Ch(t, p) \in {"\n", "\r"}}

Greatest(S) == CHOOSE p \in S : \A q \in S : q <= p

\* the line that the terminator at p ends
LineBefore(t, p) ==
    SubSeq(t, Greatest({q \in Terminators(t) : q < p} \cup {0}) + 1, p - 1)

\* the terminators that end a line which fits the line buffer and holds an identifier
IdLines(t) ==
    {p \in Terminators(t) :
        Len(LineBefore(t, p)) < 255 /\ WindowStarts(LineBefore(t, p)) # {}}

FirstId(t) ==
    SubSeq(LineBefore(t, Least(IdLines(t))),
           Least(WindowStarts(LineBefore(t, Least(IdLines(t))))),
           Least(WindowStarts(LineBefore(t, Least(IdLines(t))))) + 16)

Occurs(w, t) == \E p \in 1..(Len(t) - Len(w) + 1) : SubSeq(t, p, p + Len(w) - 1) = w

C5_ExtractLeftmostWindow ==
    xout # Pending =>
        IF WindowStarts(xin) = {}
        THEN xout.rc = -1
        ELSE /\ xout.rc = 0
             /\ xout.out = SubSeq(xin, Least(WindowStarts(xin)), Least(WindowStarts(xin)) + 16)

\* a text with two overlapping windows and mixed case has been scanned
C5_Witness ==
    /\ xout # Pending
    /\ Cardinality(WindowStarts(xin)) >= 2
    /\ xout.rc = 0
    /\ \E i \in 1..17 : Ch(xout.out, i) \in UpperHex

(***************************************************************************)
(* C6, C7: the telemetry shapes                                            *)
(***************************************************************************)
\* a numeric text without its sign
Unsigned(t) == IF t # "" /\ Ch(t, 1) \in {"-", "+"} THEN Tail(t) ELSE t

DotsOf(t) == {i \in 1..Len(t) : Ch(t, i) = "."}

\* a well-formed numeric text: an optional sign, digits, at most one point
IsNumeral(t) ==
    /\ \A i \in 1..Len(Unsigned(t)) : Ch(Unsigned(t), i) \in Digits \cup {"."}
    /\ \E i \in 1..Len(Unsigned(t)) : Ch(Unsigned(t), i) \in Digits
    /\ Cardinality(DotsOf(Unsigned(t))) <= 1

\* the number a well-formed numeric text denotes
DecimalOf(neg, u, dots) ==
    IF dots = {} THEN FloatOf(neg, u, "")
    ELSE FloatOf(neg, SubSeq(u, 1, Least(dots) - 1), SubSeq(u, Least(dots) + 1, Len(u)))

ValueOf(t) == DecimalOf(Ch(t, 1) = "-", Unsigned(t), DotsOf(Unsigned(t)))

\* C6: for every telemetry payload "<id> <v>": if 0.0 <= v <= 5.0 the gateway
\* forwards exactly one reading (id, v) for that packet; if v is outside that
\* range or the numeric text is malformed, it forwards none.
C6_ForwardsIffInRange ==
    \A v \in VTexts :
        lastpkt.buf = MacA \o " " \o v =>
            IF IsNumeral(v) /\ InSensorRange(ValueOf(v))
            THEN lastpkt.fwd = <<[mac |-> MacA, moisture |-> ValueOf(v)]>>
            ELSE lastpkt.fwd = <<>>

\* C7: the payloads "id v" and "id,v" parse to the same result for equivalent
\* values: for a value in range the comma shape forwards the single reading
\* (id, v) that the space shape forwards.
C7_BothShapesSameReading ==
    \A v \in VTexts :
        (lastpkt.buf = MacA \o "," \o v /\ IsNumeral(v) /\ InSensorRange(ValueOf(v))) =>
            /\ lastpkt.fwd = TelemetryPass(maps, MacA \o " " \o v, lastpkt.src).fwd
            /\ lastpkt.fwd = <<[mac |-> MacA, moisture |-> ValueOf(v)]>>

(***************************************************************************)
(* C8, C9, C10: the ring buffer and the live text                          *)
(***************************************************************************)
\* C8: in every reachable state each session's ring buffer holds at most 64
\* lines (0 <= log_count <= 64) and its write index is in 0..63.
C8_RingWithinCapacity ==
    \A i \in 1..Len(maps) :
        /\ maps[i].log_count >= 0
        /\ maps[i].log_count <= 64
        /\ maps[i].log_head >= 0
        /\ maps[i].log_head <= 63

\* a session has stored more lines than the ring holds: the ring is full and
\* the write index has wrapped
C8_Witness ==
    \E i \in 1..Len(maps) :
        /\ Len(hist[i]) > 64
        /\ maps[i].log_count = 64
        /\ maps[i].log_head = Len(hist[i]) - 64

\* the slot a query for mac looks at: the first whose identifier matches,
\* letter case ignored; 0 when there is none
SlotOf(mac) == FindCase(maps, mac) + 1

\* the last n elements of a sequence
LastN(h, n) == IF Len(h) <= n THEN h ELSE SubSeq(h, Len(h) - n + 1, Len(h))

RECURSIVE JoinLines(_)
\* the lines of h, each cut to the 127 bytes a slot holds, separated by newlines
JoinLines(h) ==
    IF h = <<>> THEN ""
    ELSE IF Len(h) = 1 THEN Take(h[1], 127)
         ELSE Take(h[1], 127) \o "\n" \o JoinLines(Tail(h))

\* C9: after N non-empty lines have been appended to a session's ring buffer,
\* server_get_logs_for_mac with a large enough output buffer returns exactly
\* the last min(N, 64) of them (each as the ring holds it, cut to 127 bytes),
\* oldest first; after 100 appended lines it returns exactly the last 64.
C9_LogsAreLastLines ==
    (ret.op = "logs" /\ ret.buflen = BigBuf /\ SlotOf(ret.mac) > 0) =>
        /\ ret.out = JoinLines(LastN(hist[SlotOf(ret.mac)], 64))
        /\ ret.rc = IF hist[SlotOf(ret.mac)] = <<>> THEN 0 ELSE Len(ret.out) + 1

\* the query is made after 100 lines have been appended to the session
C9_Witness ==
    /\ ret.op = "logs"
    /\ ret.buflen = BigBuf
    /\ SlotOf(ret.mac) > 0
    /\ Len(hist[SlotOf(ret.mac)]) = 100
    /\ ret.rc > 64

\* the bytes a query with an output buffer of n bytes can give of a line
LiveOf(line, n) == Take(Take(line, 8191), n - 1)

NeverSeenId(slots, buf) ==
    /\ IsMacShaped(Take(buf, MAC_LEN))
    /\ \A i \in 1..Len(slots) :
          ~StrCaseEq(Take(slots[i].mac, MAC_LEN), Take(buf, MAC_LEN))

SameIds(a, b) == Len(a) = Len(b) /\ \A i \in 1..Len(a) : a[i].mac = b[i].mac

FullStaysFull ==
    (/\ Len(maps) = SERVER_MAP_MAX
     /\ lastpkt' # lastpkt
     /\ NeverSeenId(maps, lastpkt'.buf))
        => /\ SameIds(maps, maps')
           /\ lastpkt'.logged = FindByAddr(maps, lastpkt'.src) + 1

C11_RegistryWithinCapacity ==
    [][Len(maps') <= SERVER_MAP_MAX /\ FullStaysFull]_vars

\* a full registry after a packet from a never-seen identifier whose line went
\* to the session of its source address
C11_Witness ==
    /\ Len(maps) = SERVER_MAP_MAX
    /\ NeverSeenId(maps, lastpkt.buf)
    /\ lastpkt.logged > 0

(***************************************************************************)
(* C14 - C17: what one packet leaves in the registry (Spec)                *)
(***************************************************************************)
\* the first whitespace-delimited token of the packet handled last
PktTok == Sscanf(lastpkt.buf, FmtFirstTok)

\* the session of an identifier, under the registry's comparison; 0 for none
SessionOf(id) == FindCase(maps, id) + 1

\* the packet handled last starts with an identifier that has a session
PktHasSession ==
    /\ npackets > 0
    /\ PktTok.n = 1
    /\ IsMacShaped(PktTok.vals[1])
    /\ SessionOf(PktTok.vals[1]) > 0

PktSession == maps[SessionOf(PktTok.vals[1])]

\* the line add_log_to_entry stored last in the ring of entry e
NewestLine(e) == e.logs[(e.log_head + SERVER_LOG_LINES - 1) % SERVER_LOG_LINES]

\* C14: no two sessions have identifiers that are equal ignoring case
C14_IdsUniqueIgnoringCase ==
    \A i \in 1..Len(maps) : \A j \in 1..Len(maps) :
        i # j => ~StrCaseEq(maps[i].mac, maps[j].mac)

\* C15: after a packet whose first token is an identifier with a session, the
\* session's live text is the packet's line and the line is the newest entry
\* of its ring buffer
C15_LiveTextIsPacketLine ==
    PktHasSession =>
        /\ ImageBytes(PktSession.live_text, PktSession.live_len) = lastpkt.buf
        /\ PktSession.log_count > 0
        /\ NewestLine(PktSession) = Take(lastpkt.buf, SERVER_LOG_LINE_LEN - 1)

\* C16: after a packet whose first token is an identifier with a session, the
\* session's address is the packet's source address
C16_AddressIsLastSource ==
    PktHasSession => PktSession.addr = lastpkt.src

\* C17: after a datagram of length zero the receive loop is still receiving
C17_EmptyDatagramKeepsLoop ==
    (npackets > 0 /\ lastpkt.buf = "") => rxthread = "receiving"

(***************************************************************************)
(* C12, C13, C18 - C20: the operations of server.h next to the receive     *)
(* thread (SpecThreads, SpecStop)                                          *)
(***************************************************************************)
RegistryOps == {"cmd", "text", "logs", "live", "state"}

\* the receive thread has handled one datagram so far, a reading of id in one
\* of the two shapes, and is through with it
OneReadingFrom(id) ==
    /\ npackets = 1
    /\ rxthread \in {"receiving", "exited"}
    /\ lastpkt.buf \in {id \o " 3.20", id \o ",3.20"}

\* the step in which an operation on the registry looks its identifier up
LookupStep == call.pc = "locked" /\ call' # call

\* C12: an operation on the registry for an identifier returns -1 while no
\* datagram has been received; once one reading of the identifier has been
\* handled, a command gets as far as its send and a query returns a result
\* other than -1
C12_UnknownThenKnown ==
    [][LookupStep =>
          /\ npackets = 0 => (call'.pc = "done" /\ call'.rc = -1)
          /\ OneReadingFrom(call.mac) =>
                IF call.op \in {"cmd", "text"} THEN call'.pc = "send"
                ELSE call'.pc = "done" /\ call'.rc # -1]_vars

StopWaiting == call.op = "stop" /\ call.pc = "join"

StopReturned == call.op = "stop" /\ call.pc = "done" /\ rxthread = "exited"

C18_BindFailureReported ==
    (rxthread = "failed" /\ call.op = "start") => call.rc # 0

\* C19: the registry is written, and read by either thread, only in steps of
\* a thread that holds maps_mutex; a thread that receives or sends a datagram
\* or calls the consumer does not hold it
C19_RegistryUnderLock ==
    [][/\ maps' # maps => mutex = "rx"
       /\ (rxthread \in {"diag_locked", "tel_locked"} /\ rxthread' # rxthread) => mutex = "rx"
       /\ LookupStep => mutex = "caller"
       /\ (rxthread = "receiving" /\ lastpkt' # lastpkt) => mutex # "rx"
       /\ lastpkt'.fwd # lastpkt.fwd => mutex # "rx"
       /\ (outbox' # outbox \/ inflight' > inflight) => mutex # "caller"]_vars

\* a query has read the registry between the two passes of the receive
\* thread over one reading
C19_Witness ==
    /\ rxthread = "tel_lock"
    /\ call.op = "live"
    /\ call.pc = "done"
    /\ call.rc >= 0
    /\ Len(maps) > 0

\* C20: server_send_cmd_to_mac returns -1 and sends nothing when no session
\* carries the identifier; otherwise it takes the session's address at the
\* lookup, sends one datagram "D0 1" or "D0 0" there, and returns 0 exactly
\* when the datagram was sent
C20_CommandGoesToSession ==
    [][call.op = "cmd" =>
          /\ LookupStep =>
                IF SessionOf(call.mac) = 0
                THEN call'.pc = "done" /\ call'.rc = -1 /\ outbox' = outbox
                ELSE call'.pc = "send" /\ call'.dest = maps[SessionOf(call.mac)].addr
          /\ (call.pc = "send" /\ call' # call) =>
                \/ outbox' = outbox /\ call'.rc = -1
                \/ /\ outbox' = Append(outbox,
                                       [dest |-> call.dest,
                                        payload |-> IF call.num # 0 THEN "D0 1" ELSE "D0 0"])
                   /\ call'.rc = 0]_vars

(***************************************************************************)
(* C21: the state query on an identifier without a session (SpecThreads)   *)
(***************************************************************************)
\* what the state query returns for the sessions whose actuator state is UNKNOWN
UnknownStateResults ==
    {server_get_output_state_for_mac(maps, maps[i].mac) :
        i \in {j \in 1..Len(maps) : maps[j].last_output_state = -1}}

\* C21: the state query for an identifier that no session carries returns a
\* result that differs from what it returns for a session whose actuator
\* state is UNKNOWN
C21_UnknownIdToldApart ==
    [][(LookupStep /\ call.op = "state" /\ SessionOf(call.mac) = 0) =>
          call'.rc \notin UnknownStateResults]_vars

(***************************************************************************)
(* C22, C24: the actuator state of a session (Spec)                        *)
(***************************************************************************)
\* the line has one of the two acknowledgement formats
AckLine(line) == Sscanf(line, FmtCmdSet).n = 2 \/ Sscanf(line, FmtCmdShort).n = 2

\* the line is an actuator-state report or an acknowledgement
IsStateLine(line) == Sscanf(line, FmtControlPin).n = 2 \/ AckLine(line)

\* no line stored for the session in slot i is a report or an acknowledgement
NoStateLine(i) == \A k \in 1..Len(hist[i]) : ~IsStateLine(hist[i][k])

\* C22: a session that has received no actuator-state report and no
\* acknowledgement has the state UNKNOWN, however it was created, and the
\* state query on its identifier does not return HIGH or LOW
C22_UnknownUntilReported ==
    \A i \in 1..Len(maps) :
        NoStateLine(i) =>
            /\ maps[i].last_output_state = -1
            /\ FindCase(maps, maps[i].mac) = i - 1 =>
                   server_get_output_state_for_mac(maps, maps[i].mac) \notin {0, 1}

\* the session of the device at the source address of the next packet, 0 for none
DeviceAt(src) == FindByAddr(maps, src) + 1

\* C24: an acknowledgement in either format from the address of a device that
\* has a session is stored for that session and sets its state, HIGH for 1
\* and LOW for 0; it adds no session
C24_AckSetsDeviceState ==
    [][(/\ npackets' = npackets + 1
        /\ AckLine(lastpkt'.buf)
        /\ DeviceAt(lastpkt'.src) > 0)
          => /\ SameIds(maps, maps')
             /\ lastpkt'.logged = DeviceAt(lastpkt'.src)
             /\ maps'[DeviceAt(lastpkt'.src)].last_output_state = AckState(lastpkt'.buf, -1)]_vars

(***************************************************************************)
(* C23: the trigger of the workflow (SpecFlash)                            *)
(***************************************************************************)
\* C23: flash_flash_first_device_and_register does not wait for the
\* workflow: once the thread is created its return is possible wherever the
\* workflow is; it returns -1 exactly when the thread could not be created and
\* 0 otherwise, and nothing the workflow does later changes the value
C23_TriggerDoesNotBlock ==
    /\ trigger.pc = "detach" => ENABLED FlashReturn
    /\ trigger.pc = "returned" => (trigger.rc = -1 <=> pc = "nothread")
    /\ trigger.pc = "returned" => trigger.rc \in {0, -1}
    /\ pc = "nothread" => trigger.pc = "returned"

\* the trigger has returned 0 while the workflow, whose compile command could
\* not be started, is still waiting for the registration
C23_Witness ==
    /\ trigger = [pc |-> "returned", rc |-> 0]
    /\ pc = "wait"
    /\ CompileNotStarted

(***************************************************************************)
(* C25 - C28: the serial wait (SpecFlash, SpecFlashFair)                   *)
(***************************************************************************)
\* the terminators that end a line holding an identifier, whatever its length
AnyIdLines(t) == {p \in Terminators(t) : WindowStarts(LineBefore(t, p)) # {}}

\* the leftmost identifier of the first such line
FirstLineId(t) ==
    SubSeq(LineBefore(t, Least(AnyIdLines(t))),
           Least(WindowStarts(LineBefore(t, Least(AnyIdLines(t))))),
           Least(WindowStarts(LineBefore(t, Least(AnyIdLines(t))))) + 16)

\* wait_for_registration_on_serial has opened the serial handle in this run
WaitEntered == fd_open + fd_closes > 0

\* C25: when the wait loop has read a terminated line that holds an
\* identifier, the run notifies the consumer with that identifier, whatever
\* precedes it and however long the line is; otherwise it notifies with the
\* null signal
C25_IdLineRegisters ==
    \A i \in 1..Len(trace) :
        (trace[i].k = "notify" /\ WaitEntered) =>
            IF AnyIdLines(ReadText) # {}
            THEN trace[i] = Notify(FirstLineId(ReadText))
            ELSE trace[i] = NotifyNull

\* the upload command has been invoked in this run
UploadInvoked == \E i \in 1..Len(trace) : trace[i].k = "upload"

UsingDevice == Status("Using serial device /dev/ttyACM0 for registration")

\* C26: the step that invokes the upload command leads to the second search
\* for the device whether the command ran, failed or could not be started;
\* from there a run that invoked it enters the serial wait when a device is
\* found (and is through with it at once when the device cannot be opened),
\* and notifies the consumer with the null signal when none is found
C26_UploadOutcomeKeepsPath ==
    [][/\ (pc = "upload" /\ UploadInvoked') => pc' = "rediscover"
       /\ (pc = "rediscover" /\ pc' # pc /\ UploadInvoked) =>
             \/ pc' = "wait" /\ trace' = Append(trace, UsingDevice)
             \/ pc' = "cleanup" /\ trace' = trace \o <<UsingDevice>> \o Unregistered
             \/ /\ pc' = "cleanup"
                /\ trace' = trace \o <<Status("No serial device found after upload"),
                                       NotifyNull>>]_vars

\* a run whose upload command exited nonzero is in the serial wait
C26_Witness ==
    /\ pc = "wait"
    /\ \E i \in 1..Len(trace) : trace[i] = Pclose("upload", 256)

\* C27: the wait loop makes at most 600 polls, and a run that is in the loop
\* leaves it, whatever the serial line delivers
C27_WaitLoopEnds ==
    /\ [](ticks <= 600)
    /\ (pc = "wait" ~> pc = "cleanup")

\* the loop was left after its 600th poll, the line having delivered no byte
C27_Witness ==
    /\ pc = "cleanup"
    /\ ticks = 600
    /\ script = [ops |-> <<>>, tail |-> "EOF"]

\* the ways the serial wait has ended
WaitEnded == WaitEntered /\ pc \in {"cleanup", "returned"}

\* C28: while the wait loop runs the serial handle is open and was not
\* closed; once wait_for_registration_on_serial has returned, by a match, by
\* the timeout or by a read error, it is closed and was closed exactly once
C28_HandleClosedOnce ==
    /\ pc = "wait" => (fd_open = 1 /\ fd_closes = 0)
    /\ WaitEnded => (fd_open = 0 /\ fd_closes = 1)
    /\ fd_open \in {0, 1} /\ fd_closes \in {0, 1}

\* the wait has ended by a read error with the handle closed
C28_Witness ==
    /\ WaitEnded
    /\ fd_closes = 1
    /\ \E i \in 1..Len(trace) : trace[i] = Status("Serial read error: Input/output error")

(***************************************************************************)
(* C29, C30: the two passes over one packet (SpecFill, Spec)               *)
(***************************************************************************)
\* a round of the receive loop has handled a packet
PacketHandled == sent' # sent \/ npackets' # npackets

\* the readings the two sscanf calls and the range test make of a payload
ParsedReadings(buf) == TelemetryPass(<<>>, buf, NoPacket.src).fwd

\* what the telemetry pass makes of the registry mid for a reading of id from
\* src: the session of id has the address src, being added when there is room;
\* with no session of id and no room the registry stays as it is
TelemetryLeaves(mid, after, id, src) ==
    IF FindExact(mid, id) >= 0 \/ Len(mid) < SERVER_MAP_MAX
    THEN /\ FindExact(after, id) >= 0
         /\ after[FindExact(after, id) + 1].addr = src
         /\ Len(after) = IF FindExact(mid, id) >= 0 THEN Len(mid) ELSE Len(mid) + 1
    ELSE after = mid

IsIdValue(buf) ==
    /\ Len(buf) > MAC_LEN + 1
    /\ IsMacShaped(Take(buf, MAC_LEN))
    /\ Ch(buf, MAC_LEN + 1) = " "
    /\ IsNumeral(Drop(buf, MAC_LEN + 1))

\* the line of the packet went to the session of id: it is the newest line of
\* the session's ring buffer and its live text
AttributedTo(slots, pkt, id) ==
    /\ FindCase(slots, id) >= 0
    /\ pkt.logged = FindCase(slots, id) + 1
    /\ NewestLine(slots[pkt.logged]) = Take(pkt.buf, SERVER_LOG_LINE_LEN - 1)
    /\ ImageBytes(slots[pkt.logged].live_text, slots[pkt.logged].live_len) = pkt.buf

\* C30: for a packet "<identifier> <v>" the diagnostic pass stores the line
\* for the identifier's session whatever v is; with v out of range the
\* telemetry pass forwards nothing and leaves the registry as the diagnostic
\* pass left it, with v in range it forwards the reading as well
C30_PassesAreIndependent ==
    [][(PacketHandled /\ IsIdValue(lastpkt'.buf)) =>
          /\ AttributedTo(maps', lastpkt', Take(lastpkt'.buf, MAC_LEN))
          /\ IF InSensorRange(ValueOf(Drop(lastpkt'.buf, MAC_LEN + 1)))
             THEN Len(lastpkt'.fwd) = 1
             ELSE /\ lastpkt'.fwd = <<>>
                  /\ maps' = DiagPass(maps, lastpkt'.buf, lastpkt'.src).slots]_vars

(***************************************************************************)
(* C31: lines without an identifier (Spec)                                 *)
(***************************************************************************)
\* the packet has a first token and the token holds no colon
PlainFirstToken(buf) ==
    /\ Sscanf(buf, FmtFirstTok).n = 1
    /\ \A k \in 1..Len(Sscanf(buf, FmtFirstTok).vals[1]) :
           Ch(Sscanf(buf, FmtFirstTok).vals[1], k) # ":"

\* the sessions whose address has the IP of src, whatever the port
SameIp(slots, src) == {i \in 1..Len(slots) : slots[i].addr.ip = src.ip}

\* the registry with the line stored for the first of the sessions in S, and
\* as it is when S is empty
LineStoredAtFirst(slots, S, line) ==
    IF S = {} THEN slots
    ELSE [slots EXCEPT ![Least(S)] = append_live_text(StoreLog(@, line), line)]

\* C31: for a packet whose first token holds no colon, the diagnostic pass
\* stores the line for the first session whose address has the IP of the
\* packet's source, whatever the port, and for no other; with no such session
\* it changes nothing and adds no session.  What the round changes beyond
\* that is what the telemetry pass does on the registry so left.
C31_PlainLineGoesByAddress ==
    [][(PacketHandled /\ PlainFirstToken(lastpkt'.buf)) =>
          /\ lastpkt'.logged = IF SameIp(maps, lastpkt'.src) = {} THEN 0
                                ELSE Least(SameIp(maps, lastpkt'.src))
          /\ maps' = TelemetryPass(LineStoredAtFirst(maps, SameIp(maps, lastpkt'.src),
                                                     lastpkt'.buf),
                                   lastpkt'.buf, lastpkt'.src).slots]_vars

\* a line without identifier was stored for a session whose address has
\* another port than the packet's source, and a later session has the same IP
C31_Witness ==
    /\ PlainFirstToken(lastpkt.buf)
    /\ lastpkt.logged = 1
    /\ maps[1].addr.port # lastpkt.src.port
    /\ Len(maps) >= 2
    /\ maps[2].addr.ip = lastpkt.src.ip

(***************************************************************************)
(* C32: commands and queries look an identifier up the same way            *)
(* (SpecThreads)                                                           *)
(***************************************************************************)
\* each of the three queries reports the identifier unknown in this registry
QueriesReportUnknown(slots, mac) ==
    /\ server_get_logs_for_mac(slots, mac, BigBuf).rc = -1
    /\ server_get_live_text_for_mac(slots, mac, BigBuf).rc = -1
    /\ FindCase(slots, mac) = -1

\* one of the three queries does
SomeQueryReportsUnknown(slots, mac) ==
    \/ server_get_logs_for_mac(slots, mac, BigBuf).rc = -1
    \/ server_get_live_text_for_mac(slots, mac, BigBuf).rc = -1
    \/ FindCase(slots, mac) = -1

\* C32: at its lookup a command reports its identifier unknown exactly when
\* the queries report it unknown for the same text in the same registry
C32_SameLookupEverywhere ==
    [][(LookupStep /\ call.op \in {"cmd", "text"}) =>
          /\ (call'.pc = "done" /\ call'.rc = -1) => QueriesReportUnknown(maps, call.mac)
          /\ SomeQueryReportsUnknown(maps, call.mac) => (call'.pc = "done" /\ call'.rc = -1)]_vars

(***************************************************************************)
(* C36, C37: the sessions a packet creates (Spec)                          *)
(***************************************************************************)
\* C36: a packet adds at most one session
C36_OneSessionPerPacket == [][Len(maps') <= Len(maps) + 1]_vars

\* the text holds a colon
WithColon(id) == \E k \in 1..Len(id) : Ch(id, k) = ":"

\* C37: every session's identifier holds a colon, and so does the identifier
\* of every reading handed to the consumer
C37_KeysHoldColon ==
    /\ \A i \in 1..Len(maps) : WithColon(maps[i].mac)
    /\ \A k \in 1..Len(lastpkt.fwd) : WithColon(lastpkt.fwd[k].mac)

(***************************************************************************)
(* C34, C35: what a run of the workflow leaves behind (SpecFlash)          *)
(***************************************************************************)
\* C34: when the run has ended, nothing it created under /tmp is left
C34_TempRemoved == pc = "returned" => tmpfiles = {}

\* the calls of moisture_add_plot_for_sensor the run has made
NotifyCalls(tr) == {i \in 1..Len(tr) : IsNotify(tr[i])}

\* C35: a run calls moisture_add_plot_for_sensor at most once while it is under
\* way and exactly once by the time it has returned, and the call carries
\* either NULL or an identifier of the form xx:xx:xx:xx:xx:xx
C35_NotifiesOnce ==
    /\ Cardinality(NotifyCalls(trace)) <= 1
    /\ pc = "returned" => Cardinality(NotifyCalls(trace)) = 1
    /\ \A i \in NotifyCalls(trace) : trace[i].null \/ IsMacShaped(trace[i].text)

\* a run that waited on the serial line has returned after telling the
\* consumer an identifier, once
C35_Witness ==
    /\ pc = "returned"
    /\ fd_closes = 1
    /\ Cardinality(NotifyCalls(trace)) = 1
    /\ \E i \in NotifyCalls(trace) : ~trace[i].null /\ IsMacShaped(trace[i].text)

(***************************************************************************)
(* C33, C38, C40: the registry and the receive thread over the calls       *)
(* (SpecThreads)                                                           *)
(***************************************************************************)
\* C33: whatever step is taken (a packet, a command, a query, a stop, a start
\* or the start of a new receive thread), no session goes away and every
\* session keeps its identifier
C33_SessionsStay ==
    [][/\ Len(maps') >= Len(maps)
       /\ \A i \in 1..Len(maps) : maps'[i].mac = maps[i].mac]_vars

\* the receive loop ended on a datagram of length 0 and server_start was
\* called again: the new thread receives, and the registry holds a session
C33_Witness ==
    /\ rxthread = "receiving"
    /\ call.op = "start"
    /\ call.n = 2
    /\ npackets = 2
    /\ lastpkt.buf = ""
    /\ lastpkt.src \in ThreadSrcs
    /\ Len(maps) > 0

\* C38: when server_stop has returned, the receive thread is not there or
\* has returned; it is neither about to bind nor in its loop
C38_StopLeavesNoLoop ==
    (call.op = "stop" /\ call.pc = "done") => rxthread \in {"none", "exited", "failed"}

\* C40: a step of one of the five operations on the registry leaves the
\* registry as it was, whether the operation succeeds or fails
C40_CallsLeaveRegistry ==
    [][(call' # call /\ call'.op \in RegistryOps) => maps' = maps]_vars

\* a command has found its session and sent its datagram
C40_Witness ==
    /\ call.op = "cmd"
    /\ call.pc = "done"
    /\ call.rc = 0
    /\ outbox # <<>>
    /\ Len(maps) > 0

(***************************************************************************)
(* C39: two workflow threads and their working copies (SpecTwo)            *)
(***************************************************************************)
\* the thread a has made a working copy and has not yet removed it
HasCopy(a) ==
    /\ attempts[a].created_tmp
    /\ attempts[a].pc \in {"compile", "upload", "cleanup"}

\* C39: two threads that both hold a working copy hold it in different
\* directories, and a thread that is about to compile or to upload from its
\* working copy still finds the directory and the config header in it
C39_PrivateWorkingCopies ==
    /\ \A a \in Attempts : \A b \in Attempts \ {a} :
          (HasCopy(a) /\ HasCopy(b)) => attempts[a].use_path # attempts[b].use_path
    /\ \A a \in Attempts :
          (HasCopy(a) /\ attempts[a].pc \in {"compile", "upload"}) =>
              {attempts[a].use_path, ConfigIn(attempts[a].use_path)} \subseteq fs
====
